---------------------------- MODULE Spec2Model ----------------------------
(***************************************************************************)
(* Expression trees and their textual layout (pytools.expression /         *)
(* gamma.common.expression): construction of expression nodes, structural  *)
(* equality and hashing, conversion of expressions to textual forms, and   *)
(* single-line / multi-line rendering of the forms.                        *)
(*                                                                         *)
(* Text is a sequence of one-character strings; the newline is "\n".       *)
(* An expression is a record                                               *)
(*   [cls, operator, brackets, value, subs]                                *)
(* where cls is the Python class of the node, operator the name of its     *)
(* operator (Operation, Attr, UnaryOperation), brackets the name of its    *)
(* bracket pair (collection literals, invocations), value the text of an   *)
(* atomic expression, and subs the sequence of its subexpressions.         *)
(* There is one ExpressionAlias object; its mutable field _expression is   *)
(* the variable alias_expression.                                          *)
(***************************************************************************)
EXTENDS Integers, Sequences, FiniteSets, TLC

VARIABLES
    x,                \* an expression held by the client
    y,                \* a second expression held by the client
    alias_expression, \* ExpressionAlias._expression, or NoAlias before construction
    last_target,      \* history: the expression last handed to the alias
    ret,              \* the outcome of the last call
    default_format,   \* ExpressionFormatter.__default_format
    reg_log,          \* the registrations attempted so far, in order
    queues,           \* the job queues the client hands to JobRunner.run_queues
    generator,        \* the generator object JobRunner.run_queues returned
    decorated,        \* the function the client wrapped with @deprecated
    events,           \* the warnings issued and the calls made, in order
    matrix,           \* CharacterMatrix._matrix, or NoMatrix before construction
    n_columns         \* CharacterMatrix._n_columns

\* the state of pytools.expression
expression_vars ==
    <<x, y, alias_expression, last_target, default_format, reg_log>>
\* the state of pytools.parallelization, of gamma.common and of pytools.viz.text
other_modules == <<queues, generator, decorated, events, matrix, n_columns>>

vars == <<expression_vars, ret, other_modules>>

-----------------------------------------------------------------------------
(* Bounds *)

\* largest number of nodes of an expression held in x
MaxNodes == 5
\* largest number of nodes of an expression built while the client holds a
\* second expression in y
MaxHeld == 4
\* largest number of nodes of an expression kept in y or behind the alias, or
\* built while the alias exists
MaxKept == 3
\* largest number of registration attempts
MaxRegs == 4
\* largest number of nodes of an expression built from native values, keyword
\* arguments or keys
MaxBuilt == 9
\* largest number of nodes of an expression built with the overloaded operators
MaxExample == 16
\* largest number of job queues handed to JobRunner.run_queues
MaxQueues == 3
\* largest number of jobs of a queue, and largest length a queue reports
MaxJobs == 2
\* largest number of calls of the function wrapped with @deprecated
MaxCalls == 3
\* largest numbers of rows and of columns of a CharacterMatrix
MaxRows == 2
MaxColumns == 2

-----------------------------------------------------------------------------
(* Text helpers *)

RECURSIVE Spaces(_)
Spaces(n) == IF n <= 0 THEN <<>> ELSE <<" ">> \o Spaces(n - 1)

Last(s) == s[Len(s)]
Front(s) == SubSeq(s, 1, Len(s) - 1)

\* str.isalpha() of the first / last character of a text ('' is not alphabetic)
Letters ==
    {"a", "b", "c", "d", "e", "f", "g", "h", "i", "j", "k", "l", "m",
     "n", "o", "p", "q", "r", "s", "t", "u", "v", "w", "x", "y", "z"}
FirstIsAlpha(s) == Len(s) > 0 /\ s[1] \in Letters
LastIsAlpha(s) == Len(s) > 0 /\ s[Len(s)] \in Letters

\* the sequence with the elements of the function f on 1..n, computed once
AsSeq(f) == <<>> \o f

RECURSIVE SumSeq(_)
SumSeq(s) == IF s = <<>> THEN 0 ELSE s[1] + SumSeq(Tail(s))

RECURSIVE JoinText(_, _)
\* sep.join(parts) for a sequence of texts
JoinText(sep, parts) ==
    IF parts = <<>> THEN <<>>
    ELSE IF Len(parts) = 1 THEN parts[1]
    ELSE parts[1] \o sep \o JoinText(sep, Tail(parts))

\* number of lines of a text: one more than its newline characters
NumLines(t) == 1 + Cardinality({i \in 1..Len(t) : t[i] = "\n"})

-----------------------------------------------------------------------------
(* Operators *)

UnaryOperators == {"POS", "NEG", "INVERT", "NOT", "LAMBDA"}

\* BinaryOperator.SLICE of pytools.expression.operator
SLICE_symbol == <<":">>

symbol(operator) ==
    CASE operator = "DOT" -> <<".">>
      [] operator = "POW" -> <<"*", "*">>
      [] operator = "POS" -> <<"+">>
      [] operator = "NEG" -> <<"-">>
      [] operator = "MUL" -> <<"*">>
      [] operator = "MATMUL" -> <<"@">>
      [] operator = "DIV" -> <<"/">>
      [] operator = "FLOOR_DIV" -> <<"/", "/">>
      [] operator = "INVERT" -> <<"~">>
      [] operator = "MOD" -> <<"%">>
      [] operator = "ADD" -> <<"+">>
      [] operator = "SUB" -> <<"-">>
      [] operator = "LSHIFT" -> <<"<", "<">>
      [] operator = "RSHIFT" -> <<">", ">">>
      [] operator = "AND_BITWISE" -> <<"&">>
      [] operator = "XOR_BITWISE" -> <<"^">>
      [] operator = "OR_BITWISE" -> <<"|">>
      [] operator = "IN" -> <<"i", "n">>
      [] operator = "NOT_IN" -> <<"n", "o", "t", " ", "i", "n">>
      [] operator = "IS" -> <<"i", "s">>
      [] operator = "IS_NOT" -> <<"i", "s", " ", "n", "o", "t">>
      [] operator = "LT" -> <<"<">>
      [] operator = "LE" -> <<"<", "=">>
      [] operator = "GT" -> <<">">>
      [] operator = "GE" -> <<">", "=">>
      [] operator = "NEQ_" -> <<"<", ">">>
      [] operator = "NEQ" -> <<"!", "=">>
      [] operator = "EQ" -> <<"=", "=">>
      [] operator = "NOT" -> <<"n", "o", "t">>
      [] operator = "AND" -> <<"a", "n", "d">>
      [] operator = "OR" -> <<"o", "r">>
      [] operator = "LAMBDA" -> <<"l", "a", "m", "b", "d", "a">>
      [] operator = "ASSIGN" -> <<"=">>
      [] operator = "COLON" -> <<":">>
      [] operator = "SLICE" -> SLICE_symbol
      [] operator = "COMMA" -> <<",">>
      [] operator = "NONE" -> <<>>

\* the precedence tiers, tightest binding first
OPERATOR_PRECEDENCE_ORDER ==
    << {"DOT"},
       {"POW"},
       {"INVERT"},
       {"POS", "NEG"},
       {"MUL", "MATMUL", "DIV", "FLOOR_DIV", "MOD"},
       {"ADD", "SUB"},
       {"LSHIFT", "RSHIFT"},
       {"AND_BITWISE"},
       {"XOR_BITWISE"},
       {"OR_BITWISE"},
       {"IN", "NOT_IN", "IS", "IS_NOT", "LT", "LE", "GT", "GE"},
       {"NEQ_", "NEQ", "EQ"},
       {"NOT"},
       {"AND"},
       {"OR"},
       {"LAMBDA"},
       {"ASSIGN", "COLON"},
       {"COMMA"} >>

\* Operator.MIN_PRECEDENCE / Operator.MAX_PRECEDENCE and Operator.precedence of
\* pytools.expression.operator: the value grows with the binding strength, as
\* its callers require (an atomic expression reports MAX_PRECEDENCE and a child
\* is bracketed when its precedence is smaller than its parent's); an operator
\* outside the tiers binds loosest.
MIN_PRECEDENCE == 0 - 1
MAX_PRECEDENCE == Len(OPERATOR_PRECEDENCE_ORDER)

precedence(operator) ==
    IF \E i \in 1..Len(OPERATOR_PRECEDENCE_ORDER) :
           operator \in OPERATOR_PRECEDENCE_ORDER[i]
    THEN Len(OPERATOR_PRECEDENCE_ORDER)
         - (CHOOSE i \in 1..Len(OPERATOR_PRECEDENCE_ORDER) :
                operator \in OPERATOR_PRECEDENCE_ORDER[i])
    ELSE MIN_PRECEDENCE

-----------------------------------------------------------------------------
(* Bracket pairs *)

opening(brackets) ==
    CASE brackets = "ROUND" -> <<"(">>
      [] brackets = "SQUARE" -> <<"[">>
      [] brackets = "CURLY" -> <<"{">>
      [] brackets = "ANGLED" -> <<"<">>

closing(brackets) ==
    CASE brackets = "ROUND" -> <<")">>
      [] brackets = "SQUARE" -> <<"]">>
      [] brackets = "CURLY" -> <<"}">>
      [] brackets = "ANGLED" -> <<">">>

-----------------------------------------------------------------------------
(* Expression nodes *)

Node(cls, operator, brackets, value, subs) ==
    [cls |-> cls, operator |-> operator, brackets |-> brackets,
     value |-> value, subs |-> subs]

AtomicClasses == {"Lit", "Id", "Epsilon"}
BracketedClasses ==
    {"ListLiteral", "TupleLiteral", "SetLiteral", "DictLiteral", "_Invocation"}
PrefixClasses ==
    {"UnaryOperation", "KeywordArgument", "DictEntry", "Call", "Index",
     "LambdaDefinition", "Lambda"}
\* Attr is a subclass of Operation
OperationClasses == {"Operation", "Attr"}
ExpressionClasses ==
    AtomicClasses \cup BracketedClasses \cup PrefixClasses \cup OperationClasses
        \cup {"ExpressionAlias"}

\* the outcome of a constructor call: the node built, or the exception raised
Built(node) == [err |-> "", val |-> node]
Raised(exc) == [err |-> exc, val |-> Node("Epsilon", "", "", <<>>, <<>>)]

\* the outcome of the first failing call of a sequence of outcomes
FirstError(outcomes) ==
    outcomes[CHOOSE i \in 1..Len(outcomes) :
                 /\ outcomes[i].err # ""
                 /\ \A j \in 1..(i - 1) : outcomes[j].err = ""]

AnyError(outcomes) == \E i \in 1..Len(outcomes) : outcomes[i].err # ""

Values(outcomes) == AsSeq([i \in 1..Len(outcomes) |-> outcomes[i].val])

Epsilon == Node("Epsilon", "", "", <<>>, <<>>)

\* Lit(value): value is given by its repr() text
Lit(text) == Node("Lit", "", "", text, <<>>)

\* A native value handed to the constructors: cls is the name of its type,
\* value the text of a str and the repr() text of any other value, items the
\* elements an iterable yields, and name its attribute __name__ (<<>> when it
\* has none).
Native(cls, value, items, name) ==
    [cls |-> cls, value |-> value, items |-> items, name |-> name]
NativeStr(text) == Native("str", text, <<>>, <<>>)
NativeInt(text) == Native("int", text, <<>>, <<>>)

\* Id(name) for a native value: a str is taken as it is (an empty one too); any
\* other value must have a non-empty __name__
Id(name) ==
    IF name.cls = "str" THEN Built(Node("Id", "", "", name.value, <<>>))
    ELSE IF name.name # <<>>
         THEN Built(Node("Id", "", "", name.name, <<>>))
    ELSE Raised("TypeError")

\* None, and the parts of a slice object
None == Native("NoneType", <<"N", "o", "n", "e">>, <<>>, <<>>)
NativeSlice(start, stop, step) == Native("slice", <<>>, <<start, stop, step>>, <<>>)

\* the native containers, with their elements in iteration order
NativeList(items) == Native("list", <<>>, items, <<>>)
NativeTuple(items) == Native("tuple", <<>>, items, <<>>)
NativeSet(items) == Native("set", <<>>, items, <<>>)
\* a dict; items is the sequence of its <<key, value>> pairs
NativeDict(items) == Native("dict", <<>>, items, <<>>)
\* range(stop): an iterable that is none of the above
NativeRange(items) == Native("range", <<>>, items, <<>>)
\* FrozenExpression(expression); items holds the expression
FrozenExpression(expression) == Native("FrozenExpression", <<>>, <<expression>>, <<>>)

\* isinstance(value, Iterable) for the values that reach the test
Iterables == {"range"}

\* type(value) for an iterable value
type_of(value) ==
    Native("type", <<>>, <<>>,
           CASE value.cls = "range" -> <<"r", "a", "n", "g", "e">>)

RECURSIVE EscapeNewlines(_)
\* repr() of a str: the text in quotes, a newline written as backslash and n
EscapeNewlines(text) ==
    IF text = <<>> THEN <<>>
    ELSE (IF Head(text) = "\n" THEN <<"\\", "n">> ELSE <<Head(text)>>)
             \o EscapeNewlines(Tail(text))
repr(value) ==
    IF value.cls = "str" THEN <<"'">> \o EscapeNewlines(value.value) \o <<"'">>
    ELSE value.value

\* the body of Operation.__init__ behind the conversion of the operands
\* variant: the first operand is never flattened
Operation_without_flattening(operator, operands) ==
    IF operator \in UnaryOperators THEN Raised("TypeError")
    ELSE IF Len(operands) < 2 THEN Raised("ValueError")
    ELSE Built(Node("Operation", operator, "", <<>>, operands))

\* variant: a single operand is accepted
Operation_of_one_operand(operator, operands) ==
    IF operator \in UnaryOperators THEN Raised("TypeError")
    ELSE IF Len(operands) < 1 THEN Raised("ValueError")
    ELSE Built(Node("Operation", operator, "", <<>>, operands))

\* Operation.__init__ behind the conversion of the operands: the checks of the
\* operator and of the number of operands, and the flattening
Operation_init(operator, operands) ==
    IF operator \in UnaryOperators THEN Raised("TypeError")
    ELSE IF Len(operands) < 2 THEN Raised("ValueError")
    ELSE LET first_operand == operands[1]
         IN  IF /\ first_operand.cls \in OperationClasses
                /\ first_operand.operator = operator
             THEN Built(Node("Operation", operator, "", <<>>,
                             first_operand.subs \o Tail(operands)))
             ELSE Built(Node("Operation", operator, "", <<>>, operands))

\* CollectionLiteral.__init__ behind the conversion of the elements
CollectionLiteral_init(cls, brackets, elements) ==
    LET subexpression ==
            IF Len(elements) = 0 THEN Built(Epsilon)
            ELSE IF Len(elements) = 1 THEN Built(elements[1])
            ELSE Operation_init("COMMA", elements)
    IN  IF subexpression.err # "" THEN subexpression
        ELSE Built(Node(cls, "", brackets, <<>>, <<subexpression.val>>))

\* Invocation.__init__ behind the conversion of the prefix and the arguments
Invocation_init(cls, prefix, brackets, args) ==
    LET invocation == CollectionLiteral_init("_Invocation", brackets, args)
    IN  IF invocation.err # "" THEN invocation
        ELSE Built(Node(cls, "", "", <<>>, <<prefix, invocation.val>>))

RECURSIVE make_expression(_)
\* make_expression(value)
make_expression(value) ==
    LET Made(values) == AsSeq([i \in 1..Len(values) |-> make_expression(values[i])])
    IN  CASE value.cls \in ExpressionClasses -> value
          [] value.cls = "FrozenExpression" -> value.items[1]
          [] value.cls = "str" -> Lit(repr(value))
          [] value.cls = "list" ->
                 CollectionLiteral_init("ListLiteral", "SQUARE", Made(value.items)).val
          [] value.cls = "tuple" ->
                 CollectionLiteral_init("TupleLiteral", "ROUND", Made(value.items)).val
          [] value.cls = "set" ->
                 CollectionLiteral_init("SetLiteral", "CURLY", Made(value.items)).val
          [] value.cls = "dict" ->
                 CollectionLiteral_init("DictLiteral", "CURLY",
                     AsSeq([i \in 1..Len(value.items) |->
                              Node("DictEntry", "", "", <<>>,
                                   Made(value.items[i]))])).val
          [] value.cls = "slice" ->
                 LET args == AsSeq([i \in 1..3 |->
                                 IF value.items[i] = None THEN Epsilon
                                 ELSE make_expression(value.items[i])])
                 IN  IF value.items[3] # None
                     THEN Operation_init("SLICE", args).val
                     ELSE Operation_init("SLICE", <<args[1], args[2]>>).val
          [] value.cls \in Iterables ->
                 Invocation_init("Call", Id(type_of(value)).val, "ROUND",
                                 Made(value.items)).val
          [] OTHER ->
                 IF value.name # <<>> THEN Id(value).val ELSE Lit(repr(value))

\* the conversion of a sequence of arguments
MadeAll(values) == AsSeq([i \in 1..Len(values) |-> make_expression(values[i])])

\* Operation(operator, *operands)
Operation(operator, operands) == Operation_init(operator, MadeAll(operands))

\* Expression.__radd__ .. __ror__ of the expression self for the operator and
\* the left operand other; __rpow__ passes its two operands as one tuple
reflected_overload(operator, self, other) ==
    IF operator = "POW"
    THEN Operation("POW", <<NativeTuple(<<other, self>>)>>)
    ELSE Operation(operator, <<other, self>>)

\* Attr(obj, attribute), attribute given as a str
Attr(obj, attribute) ==
    LET attr == Id(attribute)
        init == IF obj.cls = "Attr"
                THEN Operation("DOT", obj.subs \o <<attr.val>>)
                ELSE Operation("DOT", <<obj, attr.val>>)
    IN  IF attr.err # "" THEN attr
        ELSE IF init.err # "" THEN init
        ELSE Built([init.val EXCEPT !.cls = "Attr"])

\* UnaryOperation(operator, operand)
UnaryOperation(operator, operand) ==
    Built(Node("UnaryOperation", operator, "", <<>>,
               <<Epsilon, make_expression(operand)>>))

\* KeywordArgument(name, value)
KeywordArgument(name, value) ==
    LET prefix == Id(name)
    IN  IF prefix.err # "" THEN prefix
        ELSE Built(Node("KeywordArgument", "", "", <<>>,
                        <<prefix.val, make_expression(value)>>))

\* DictEntry(key, value)
DictEntry(key, value) ==
    Built(Node("DictEntry", "", "", <<>>,
               <<make_expression(key), make_expression(value)>>))

\* LambdaDefinition(*params, body=body); with two or more parameters the call
\* Operation(operator=BinaryOperator.COMMA, *params) binds the first parameter
\* and the keyword to the argument operator
LambdaDefinition(params, body) ==
    LET params_expression ==
            IF params = <<>> THEN Built(Epsilon)
            ELSE IF Len(params) = 1 THEN Built(params[1])
            ELSE Raised("TypeError")
    IN  IF params_expression.err # "" THEN params_expression
        ELSE Built(Node("LambdaDefinition", "", "", <<>>,
                        <<make_expression(params_expression.val),
                          make_expression(body)>>))

\* Lambda(*params, body=body)
Lambda(params, body) ==
    LET definition == LambdaDefinition(params, body)
    IN  IF definition.err # "" THEN definition
        ELSE Built(Node("Lambda", "", "", <<>>,
                        <<Epsilon, make_expression(definition.val)>>))

\* CollectionLiteral.__init__ for the class cls with the given brackets
CollectionLiteral(cls, brackets, elements) ==
    CollectionLiteral_init(cls, brackets, MadeAll(elements))

ListLiteral(elements) == CollectionLiteral("ListLiteral", "SQUARE", elements)
TupleLiteral(elements) == CollectionLiteral("TupleLiteral", "ROUND", elements)
SetLiteral(elements) == CollectionLiteral("SetLiteral", "CURLY", elements)

\* Invocation.__init__ for the class cls
Invocation(cls, prefix, brackets, args) ==
    Invocation_init(cls, make_expression(prefix), brackets, MadeAll(args))

\* Call(callee, *args, **kwargs); kwargs is a sequence of <<name, value>>
Call(callee, args, kwargs) ==
    LET keywords == AsSeq([i \in 1..Len(kwargs) |->
                         KeywordArgument(kwargs[i][1], kwargs[i][2])])
    IN  IF AnyError(keywords) THEN FirstError(keywords)
        ELSE Invocation("Call", callee, "ROUND", args \o Values(keywords))

\* Index(collection, key)
Index(collection, key) ==
    LET keys == IF key.cls = "tuple" THEN key.items ELSE <<key>>
    IN  Invocation("Index", collection, "SQUARE", keys)

\* DictLiteral(*args); args is a sequence of <<key, value>>
DictLiteral(args) ==
    CollectionLiteral("DictLiteral", "CURLY",
        AsSeq([i \in 1..Len(args) |-> DictEntry(args[i][1], args[i][2]).val]))

\* the node that stands for the ExpressionAlias object
TheAlias == Node("ExpressionAlias", "", "", <<>>, <<>>)
NoAlias == Node("NoAlias", "", "", <<>>, <<>>)

\* number of nodes of an expression (an alias counts as one node)
RECURSIVE Size(_)
Size(e) == 1 + SumSeq(AsSeq([i \in 1..Len(e.subs) |-> Size(e.subs[i])]))

\* does the expression hold the alias object somewhere in its tree
RECURSIVE ContainsAlias(_)
ContainsAlias(e) ==
    \/ e.cls = "ExpressionAlias"
    \/ \E i \in 1..Len(e.subs) : ContainsAlias(e.subs[i])

\* The operators below take the state of the alias object, its field
\* _expression, as the parameter al.

\* ExpressionAlias.expression_
expression_(e, al) == al

RECURSIVE precedence_(_, _)
\* Expression.precedence_
precedence_(e, al) ==
    CASE e.cls \in AtomicClasses -> MAX_PRECEDENCE
      [] e.cls \in BracketedClasses -> MAX_PRECEDENCE
      [] e.cls = "UnaryOperation" -> precedence(e.operator)
      [] e.cls = "KeywordArgument" -> precedence("EQ")
      [] e.cls = "DictEntry" -> precedence("COLON")
      [] e.cls \in {"Call", "Index"} -> precedence("DOT")
      [] e.cls \in {"LambdaDefinition", "Lambda"} -> precedence("LAMBDA")
      [] e.cls \in OperationClasses -> precedence(e.operator)
      [] e.cls = "ExpressionAlias" -> precedence_(expression_(e, al), al)

\* PrefixExpression.separator_
separator_(e) ==
    CASE e.cls = "UnaryOperation" -> symbol(e.operator)
      [] e.cls = "KeywordArgument" -> <<"=">>
      [] e.cls = "DictEntry" -> <<":", " ">>
      [] e.cls = "LambdaDefinition" -> <<":", " ">>
      [] e.cls = "Lambda" -> symbol("LAMBDA") \o <<" ">>
      [] OTHER -> <<>>

prefix_(e) == e.subs[1]
body_(e) == e.subs[2]

-----------------------------------------------------------------------------
(* Textual forms *)

EMPTY_FORM == [form |-> "EmptyForm"]

AtomicForm(expression) == [form |-> "AtomicForm", text |-> expression.value]

\* TextualForm.__len__
len(form) ==
    CASE form.form = "EmptyForm" -> 0
      [] form.form = "AtomicForm" -> Len(form.text)
      [] OTHER -> form.length

\* BracketedForm.__init__
BracketedForm(brackets, subform, single_line) ==
    [form |-> "BracketedForm",
     length |-> (IF single_line
                 THEN Len(opening(brackets)) + Len(closing(brackets))
                 ELSE 0) + len(subform),
     brackets |-> brackets, subform |-> subform, single_line |-> single_line]

\* TextualForm.encapsulate
encapsulate(form, condition, single_line) ==
    IF condition THEN BracketedForm("ROUND", form, single_line) ELSE form

\* PrefixForm.__init__
PrefixForm(prefix, separator, body) ==
    [form |-> "PrefixForm",
     length |-> len(prefix) + Len(separator) + len(body),
     prefix |-> prefix, separator |-> separator, body |-> body]

PADDING_SPACES(infix_padding) ==
    CASE infix_padding = "none" -> 0
      [] infix_padding = "right" -> 1
      [] infix_padding = "both" -> 2

\* variant: one infix is counted for every subform
InfixForm_infix_per_subform(infix, infix_padding, subforms) ==
    LET wrapped ==
            IF infix_padding = "right"
            THEN AsSeq([i \in 1..Len(subforms) |->
                      encapsulate(subforms[i],
                                  subforms[i].form = "InfixForm", FALSE)])
            ELSE subforms
    IN  [form |-> "InfixForm",
         length |-> SumSeq(AsSeq([i \in 1..Len(wrapped) |-> len(wrapped[i])]))
                    + Len(wrapped) * (Len(infix) + PADDING_SPACES(infix_padding)),
         infix |-> infix, infix_padding |-> infix_padding,
         subforms |-> wrapped]

\* InfixForm.__init__
InfixForm(infix, infix_padding, subforms) ==
    LET wrapped ==
            IF infix_padding = "right"
            THEN AsSeq([i \in 1..Len(subforms) |->
                      encapsulate(subforms[i],
                                  subforms[i].form = "InfixForm", FALSE)])
            ELSE subforms
    IN  [form |-> "InfixForm",
         length |-> SumSeq(AsSeq([i \in 1..Len(wrapped) |-> len(wrapped[i])]))
                    + (IF Len(wrapped) - 1 > 0 THEN Len(wrapped) - 1 ELSE 0)
                      * (Len(infix) + PADDING_SPACES(infix_padding)),
         infix |-> infix, infix_padding |-> infix_padding,
         subforms |-> wrapped]

\* variant: only the dot and the empty infix are left without padding
infix_padding_of_padded_slice(infix) ==
    IF infix \in {"COMMA", "COLON"} THEN "right"
    ELSE IF infix \in {"DOT", "NONE"} THEN "none"
    ELSE "both"

\* the padding mode chosen by InfixForm.from_infix_expression
infix_padding_of(infix) ==
    IF infix \in {"COMMA", "COLON"} THEN "right"
    ELSE IF infix \in {"DOT", "SLICE", "NONE"} THEN "none"
    ELSE "both"

\* the bracketing conditions of InfixForm.from_infix_expression and
\* PrefixForm.from_prefix_expression
\* variant: the operands that bind tighter are the ones wrapped
infix_needs_brackets_tighter(pos, sub_precedence, precedence_of_parent) ==
    sub_precedence > precedence_of_parent

\* variant: no operand is wrapped
infix_needs_brackets_never(pos, sub_precedence, precedence_of_parent) == FALSE

infix_needs_brackets(pos, sub_precedence, precedence_of_parent) ==
    IF pos = 0
    THEN sub_precedence < precedence_of_parent
    ELSE sub_precedence <= precedence_of_parent

\* variant: a prefix or body of equal precedence is wrapped as well
prefix_needs_brackets_or_equal(sub_precedence, precedence_of_parent) ==
    sub_precedence <= precedence_of_parent

prefix_needs_brackets(sub_precedence, precedence_of_parent) ==
    sub_precedence < precedence_of_parent

RECURSIVE from_expression(_, _)
\* TextualForm.from_expression, with BracketedForm.from_bracketed_expression,
\* PrefixForm.from_prefix_expression and InfixForm.from_infix_expression
from_bracketed_expression(expression, al) ==
    BracketedForm(expression.brackets, from_expression(expression.subs[1], al),
                  TRUE)

from_prefix_expression(expression, al) ==
    LET prefix == prefix_(expression)
        prefix_form ==
            encapsulate(from_expression(prefix, al),
                        prefix_needs_brackets(precedence_(prefix, al),
                                              precedence_(expression, al)),
                        TRUE)
        body == body_(expression)
        body_form ==
            encapsulate(from_expression(body, al),
                        prefix_needs_brackets(precedence_(body, al),
                                              precedence_(expression, al)),
                        TRUE)
        separator == separator_(expression)
        separator1 ==
            IF len(prefix_form) # 0 /\ FirstIsAlpha(separator)
            THEN <<" ">> \o separator ELSE separator
        separator2 ==
            IF len(body_form) # 0 /\ LastIsAlpha(separator1)
            THEN separator1 \o <<" ">> ELSE separator1
    IN  PrefixForm(prefix_form, separator2, body_form)

from_infix_expression(expression, al) ==
    LET subexpressions == expression.subs
    IN  IF Len(subexpressions) = 1 THEN from_expression(subexpressions[1], al)
        ELSE InfixForm(
                 symbol(expression.operator),
                 infix_padding_of(expression.operator),
                 AsSeq([i \in 1..Len(subexpressions) |->
                      encapsulate(
                          from_expression(subexpressions[i], al),
                          infix_needs_brackets(i - 1,
                                               precedence_(subexpressions[i], al),
                                               precedence_(expression, al)),
                          TRUE)]))

from_expression(expression, al) ==
    CASE expression.cls = "Epsilon" -> EMPTY_FORM
      [] expression.cls \in {"Lit", "Id"} -> AtomicForm(expression)
      [] expression.cls \in BracketedClasses ->
             from_bracketed_expression(expression, al)
      [] expression.cls \in OperationClasses ->
             from_infix_expression(expression, al)
      [] expression.cls \in PrefixClasses ->
             from_prefix_expression(expression, al)
      [] expression.cls = "ExpressionAlias" ->
             from_expression(expression_(expression, al), al)

RECURSIVE needs_multi_line_encapsulation(_)
\* TextualForm.needs_multi_line_encapsulation and its overrides
needs_multi_line_encapsulation(form) ==
    CASE form.form = "PrefixForm" ->
             \/ needs_multi_line_encapsulation(form.prefix)
             \/ needs_multi_line_encapsulation(form.body)
      [] form.form = "InfixForm" -> TRUE
      [] OTHER -> FALSE

\* the infix text that InfixForm.to_single_line joins the subforms with
single_line_infix(form) ==
    IF form.infix # <<>>
    THEN CASE form.infix_padding = "none" -> form.infix
           [] form.infix_padding = "right" -> form.infix \o <<" ">>
           [] form.infix_padding = "both" -> <<" ">> \o form.infix \o <<" ">>
    ELSE <<>>

RECURSIVE to_single_line(_)
\* TextualForm.to_single_line of every form class
to_single_line(form) ==
    CASE form.form = "EmptyForm" -> <<>>
      [] form.form = "AtomicForm" -> form.text
      [] form.form = "BracketedForm" ->
             IF form.single_line
             THEN opening(form.brackets) \o to_single_line(form.subform)
                      \o closing(form.brackets)
             ELSE to_single_line(form.subform)
      [] form.form = "PrefixForm" ->
             to_single_line(form.prefix) \o form.separator
                 \o to_single_line(form.body)
      [] form.form = "InfixForm" ->
             JoinText(single_line_infix(form),
                      AsSeq([i \in 1..Len(form.subforms) |->
                           to_single_line(form.subforms[i])]))

-----------------------------------------------------------------------------
(* Multi-line layout.  A layout call yields [ok, lines]: ok is FALSE when *)
(* the call raises IndexError (an index into an empty list of lines).     *)

FormattingConfig(max_width, indent_width, single_line) ==
    [max_width |-> max_width, indent_width |-> indent_width,
     single_line |-> single_line]

IndentedLine(indent, text) == [indent |-> indent, text |-> text]

Lines(lines) == [ok |-> TRUE, lines |-> lines]
IndexError == [ok |-> FALSE, lines |-> <<>>]

\* variant: a form that fills the line exactly is broken up as well
exceeds_width_or_fills(form, config, indent, leading_characters, trailing_characters) ==
    leading_characters + len(form) + indent * config.indent_width
        + trailing_characters >= config.max_width

\* the width test of ComplexForm.to_lines
exceeds_width(form, config, indent, leading_characters, trailing_characters) ==
    leading_characters + len(form) + indent * config.indent_width
        + trailing_characters > config.max_width

\* the space reserved for each subform by InfixForm.to_multiple_lines
infix_leading(form, idx, leading_characters) ==
    IF form.infix_padding = "right"
    THEN (IF idx = 0 THEN leading_characters ELSE 0)
    ELSE (IF idx = 0 THEN leading_characters
          ELSE Len(form.infix) + (IF form.infix_padding = "both" THEN 1 ELSE 0))

infix_trailing(form, idx, trailing_characters) ==
    LET last_idx == Len(form.subforms) - 1
    IN  IF form.infix_padding = "right"
        THEN (IF idx < last_idx THEN Len(form.infix) ELSE trailing_characters)
        ELSE (IF idx = last_idx THEN trailing_characters ELSE 0)

\* the lines of subform idx with the infix attached as in the loop bodies of
\* InfixForm.to_multiple_lines
infix_attach(form, idx, lines) ==
    LET last_idx == Len(form.subforms) - 1
        infix == IF form.infix_padding = "both"
                 THEN form.infix \o <<" ">> ELSE form.infix
    IN  IF form.infix_padding = "right"
        THEN IF idx # last_idx
             THEN IF lines = <<>> THEN IndexError
                  ELSE Lines(Front(lines)
                             \o <<IndentedLine(Last(lines).indent,
                                               Last(lines).text \o form.infix)>>)
             ELSE Lines(lines)
        ELSE IF idx # 0
             THEN IF lines = <<>> THEN IndexError
                  ELSE Lines(<<IndentedLine(lines[1].indent,
                                            infix \o lines[1].text)>>
                             \o Tail(lines))
             ELSE Lines(lines)

RECURSIVE to_lines(_, _, _, _, _)
RECURSIVE infix_loop(_, _, _, _, _, _)

\* BracketedForm.to_multiple_lines
bracketed_to_multiple_lines(form, config, indent, leading_characters, trailing_characters) ==
    LET inner == to_lines(form.subform, config, indent + 1, 0, 0)
    IN  IF ~inner.ok THEN IndexError
        ELSE Lines(<<IndentedLine(indent, opening(form.brackets))>>
                   \o inner.lines
                   \o <<IndentedLine(indent, closing(form.brackets))>>)

\* PrefixForm.to_multiple_lines
prefix_to_multiple_lines(form, config, indent, leading_characters, trailing_characters) ==
    LET prefix_lines == to_lines(form.prefix, config, indent,
                                 leading_characters, 0)
        separator == form.separator
        subform_lines ==
            to_lines(form.body, config, indent,
                     (IF prefix_lines.lines # <<>>
                      THEN Len(Last(prefix_lines.lines).text) ELSE 0)
                         + Len(separator),
                     trailing_characters)
    IN  IF ~prefix_lines.ok THEN IndexError
        ELSE IF ~subform_lines.ok THEN IndexError
        ELSE IF subform_lines.lines = <<>> THEN IndexError
        ELSE IF prefix_lines.lines # <<>>
        THEN Lines(Front(prefix_lines.lines)
                   \o <<IndentedLine(Last(prefix_lines.lines).indent,
                                     Last(prefix_lines.lines).text
                                         \o separator
                                         \o subform_lines.lines[1].text)>>
                   \o Tail(subform_lines.lines))
        ELSE Lines(<<IndentedLine(subform_lines.lines[1].indent,
                                  separator \o subform_lines.lines[1].text)>>
                   \o Tail(subform_lines.lines))

\* the loop of InfixForm.to_multiple_lines from subform idx on (idx from 0)
infix_loop(form, config, indent, leading_characters, trailing_characters, idx) ==
    IF idx >= Len(form.subforms) THEN Lines(<<>>)
    ELSE LET lines == to_lines(form.subforms[idx + 1], config, indent,
                               infix_leading(form, idx, leading_characters),
                               infix_trailing(form, idx, trailing_characters))
             attached == infix_attach(form, idx, lines.lines)
             rest == infix_loop(form, config, indent, leading_characters,
                                trailing_characters, idx + 1)
         IN  IF ~lines.ok THEN IndexError
             ELSE IF ~attached.ok THEN IndexError
             ELSE IF ~rest.ok THEN IndexError
             ELSE Lines(attached.lines \o rest.lines)

\* InfixForm.to_multiple_lines
infix_to_multiple_lines(form, config, indent, leading_characters, trailing_characters) ==
    IF Len(form.subforms) = 1
    THEN to_lines(form.subforms[1], config, indent, leading_characters,
                  trailing_characters)
    ELSE infix_loop(form, config, indent, leading_characters,
                    trailing_characters, 0)

\* TextualForm.to_lines of every form class
to_lines(form, config, indent, leading_characters, trailing_characters) ==
    CASE form.form = "EmptyForm" -> Lines(<<>>)
      [] form.form = "AtomicForm" ->
             Lines(<<IndentedLine(indent, to_single_line(form))>>)
      [] OTHER ->
             IF exceeds_width(form, config, indent, leading_characters,
                              trailing_characters)
             THEN CASE form.form = "BracketedForm" ->
                           bracketed_to_multiple_lines(
                               form, config, indent, leading_characters,
                               trailing_characters)
                    [] form.form = "PrefixForm" ->
                           prefix_to_multiple_lines(
                               form, config, indent, leading_characters,
                               trailing_characters)
                    [] form.form = "InfixForm" ->
                           infix_to_multiple_lines(
                               form, config, indent, leading_characters,
                               trailing_characters)
             ELSE Lines(<<IndentedLine(indent, to_single_line(form))>>)

\* the text of one indented line as TextualForm.to_text writes it
line_text(config, line) == Spaces(config.indent_width * line.indent) \o line.text

\* TextualForm.to_text: [ok, text]
form_to_text(form, config) ==
    IF config.single_line THEN [ok |-> TRUE, text |-> to_single_line(form)]
    ELSE LET lines == to_lines(form, config, 0, 0, 0)
         IN  IF ~lines.ok THEN [ok |-> FALSE, text |-> <<>>]
             ELSE [ok |-> TRUE,
                   text |-> JoinText(<<"\n">>,
                                     AsSeq([i \in 1..Len(lines.lines) |->
                                          line_text(config, lines.lines[i])]))]

\* variant: the outermost form is left without brackets
top_form_bare(expression, al) == from_expression(expression, al)

\* the form PythonExpressionFormatter.to_text lays out
top_form(expression, al) ==
    LET form == from_expression(expression, al)
    IN  encapsulate(form, needs_multi_line_encapsulation(form), FALSE)

\* PythonExpressionFormatter.to_text
to_text(expression, config, al) ==
    form_to_text(top_form(expression, al), config)

-----------------------------------------------------------------------------
(* Equality and hashing *)

Min(a, b) == IF a <= b THEN a ELSE b

RECURSIVE eq_(_, _, _)
\* AtomicExpression / BracketedExpression / PrefixExpression / InfixExpression
\* ._eq_same_type; zip() pairs the operands up to the shorter length
eq_same_type(self, other, al) ==
    CASE self.cls \in AtomicClasses -> self.value = other.value
      [] self.cls \in BracketedClasses ->
             /\ self.brackets = other.brackets
             /\ eq_(self.subs[1], other.subs[1], al)
      [] self.cls \in PrefixClasses ->
             /\ eq_(prefix_(self), prefix_(other), al)
             /\ eq_(body_(self), body_(other), al)
      [] self.cls \in OperationClasses ->
             /\ self.operator = other.operator
             /\ \A i \in 1..Min(Len(self.subs), Len(other.subs)) :
                    eq_(self.subs[i], other.subs[i], al)

\* Expression.eq_
eq_(self, other, al) ==
    IF self.cls = "ExpressionAlias" THEN eq_(other, expression_(self, al), al)
    ELSE IF other.cls = "ExpressionAlias"
         THEN eq_(self, expression_(other, al), al)
    ELSE self.cls = other.cls /\ eq_same_type(self, other, al)

\* hash((...)) of a tuple is modelled by the tuple itself, as a record
HashOf(type, brackets, infix, separator, value, items) ==
    [type |-> type, brackets |-> brackets, infix |-> infix,
     separator |-> separator, value |-> value, items |-> items]

RECURSIVE hash_(_, _)
\* Expression.hash_ of every expression class
hash_(e, al) ==
    CASE e.cls \in AtomicClasses -> HashOf(e.cls, "", "", <<>>, e.value, <<>>)
      [] e.cls \in BracketedClasses ->
             HashOf(e.cls, e.brackets, "", <<>>, <<>>,
                    <<hash_(e.subs[1], al)>>)
      [] e.cls \in PrefixClasses ->
             HashOf(e.cls, "", "", separator_(e), <<>>,
                    <<hash_(prefix_(e), al), hash_(body_(e), al)>>)
      [] e.cls \in OperationClasses ->
             HashOf(e.cls, "", e.operator, <<>>, <<>>,
                    AsSeq([i \in 1..Len(e.subs) |-> hash_(e.subs[i], al)]))
      [] e.cls = "ExpressionAlias" -> hash_(expression_(e, al), al)

-----------------------------------------------------------------------------
(* The client: builds expressions, aliases them, renders and compares them *)

IdA == Node("Id", "", "", <<"a">>, <<>>)
Lit1 == Lit(<<"1">>)

\* the atomic expressions the client builds in place as arguments
Atoms == {IdA, Lit1, Epsilon}

\* the operators the client passes to Operation and to UnaryOperation
InfixOperators == {"ADD", "SUB", "MUL", "NEG"}
PrefixOperators == {"NEG", "NOT"}

\* the configurations of PythonExpressionFormatter the client uses
Configs ==
    {FormattingConfig(80, 4, TRUE), FormattingConfig(3, 4, FALSE),
     FormattingConfig(6, 1, FALSE)}

\* the record of the last call; args holds the arguments of a constructor or
\* conversion call
Ret(call, err, text, config, other, flags) ==
    [call |-> call, err |-> err, text |-> text, config |-> config,
     other |-> other, flags |-> flags, args |-> <<>>]
Called(call, err) == Ret(call, err, <<>>, FormattingConfig(80, 4, TRUE), "", <<>>)
CalledWith(call, err, args) == [Called(call, err) EXCEPT !.args = args]

\* the expressions at hand as arguments of the next call
Operands ==
    Atoms \cup {x, y}
        \cup (IF alias_expression = NoAlias THEN {} ELSE {TheAlias})

OperandLists ==
    {<<>>} \cup {<<p>> : p \in Operands}
        \cup {<<p, q>> : p \in Operands, q \in Operands}

\* the bound on the next expression bound to x
Room ==
    IF alias_expression # NoAlias THEN MaxKept
    ELSE IF y # Epsilon THEN MaxHeld
    ELSE MaxNodes

\* x = <constructor call>: x is bound to the node built, or keeps its value
\* when the constructor raises
Assign(call, outcome) ==
    /\ outcome.err = "" => Size(outcome.val) <= Room
    /\ x' = IF outcome.err = "" THEN outcome.val ELSE x
    /\ ret' = Called(call, outcome.err)
    /\ UNCHANGED <<other_modules, y, alias_expression, last_target, default_format, reg_log>>

NewAtom == \E a \in Atoms : Assign("Atom", Built(a))

NewOperation ==
    \E operator \in InfixOperators, operands \in OperandLists :
        Assign("Operation", Operation(operator, operands))

NewUnaryOperation ==
    \E operator \in PrefixOperators, operand \in Operands :
        Assign("UnaryOperation", UnaryOperation(operator, operand))

NewAttr ==
    \E obj \in Operands, attribute \in {<<"b">>} :
        Assign("Attr", Attr(obj, NativeStr(attribute)))

NewKeywordArgument ==
    \E value \in Operands :
        Assign("KeywordArgument", KeywordArgument(NativeStr(<<"k">>), value))

NewDictEntry ==
    \E key \in Operands, value \in Operands :
        Assign("DictEntry", DictEntry(key, value))

NewListLiteral ==
    \E elements \in OperandLists :
        /\ Assign("ListLiteral", ListLiteral(elements))

NewCall ==
    \E callee \in Operands, args \in OperandLists :
        /\ Len(args) <= 1
        /\ Assign("Call", Call(callee, args, <<>>))

\* y = x
Keep ==
    /\ Size(x) <= MaxKept
    /\ y' = x
    /\ ret' = Called("Keep", "")
    /\ UNCHANGED <<other_modules, x, alias_expression, last_target, default_format, reg_log>>

\* x = ExpressionAlias(expression); the client creates the alias around an
\* atomic expression and directs it to other targets with set_expression_
NewExpressionAlias ==
    \E expression \in Atoms :
        /\ alias_expression = NoAlias
        /\ alias_expression' = expression
        /\ last_target' = expression
        /\ x' = TheAlias
        /\ ret' = Called("ExpressionAlias", "")
        /\ UNCHANGED <<other_modules, y, default_format, reg_log>>

\* ExpressionAlias.set_expression_
set_expression_ ==
    \E expression \in Operands :
        /\ alias_expression # NoAlias
        /\ Size(expression) <= MaxKept
        /\ alias_expression' = expression
        /\ last_target' = expression
        /\ ret' = Called("set_expression_", "")
        /\ UNCHANGED <<other_modules, x, y, default_format, reg_log>>

\* rendering or comparing e follows the alias into its own target for ever
Cyclic(e, al) == ContainsAlias(e) /\ al # NoAlias /\ ContainsAlias(al)

\* PythonExpressionFormatter(max_width, indent_width, single_line).to_text(x)
ToText ==
    \E config \in Configs :
        /\ ret' = IF Cyclic(x, alias_expression)
                  THEN Ret("to_text", "RecursionError", <<>>, config, "", <<>>)
                  ELSE LET r == to_text(x, config, alias_expression)
                       IN  Ret("to_text", IF r.ok THEN "" ELSE "IndexError",
                               r.text, config, "", <<>>)
        /\ UNCHANGED <<other_modules, x, y, alias_expression, last_target, default_format, reg_log>>

\* the elements a collection or an argument list was built from
Elements(subexpression) ==
    IF subexpression = Epsilon THEN <<>>
    ELSE IF subexpression.cls = "Operation" /\ subexpression.operator = "COMMA"
         THEN subexpression.subs
    ELSE <<subexpression>>

RECURSIVE Rebuild(_, _)
RECURSIVE RebuildAttr(_, _, _)
\* the attribute chain obj.n1.n2... built by successive Attr calls
RebuildAttr(obj, names, idx) ==
    IF idx > Len(names) THEN obj
    ELSE RebuildAttr(Attr(obj, NativeStr(names[idx].value)).val, names, idx + 1)

\* the expression the client gets by calling the constructors again with the
\* target of the alias in the place of the alias
Rebuild(e, al) ==
    LET subs == AsSeq([i \in 1..Len(e.subs) |-> Rebuild(e.subs[i], al)])
    IN  CASE e.cls = "ExpressionAlias" -> al
          [] e.cls = "Operation" -> Operation(e.operator, subs).val
          [] e.cls = "Attr" -> RebuildAttr(subs[1], Tail(e.subs), 1)
          [] e.cls = "UnaryOperation" -> UnaryOperation(e.operator, subs[2]).val
          [] e.cls = "KeywordArgument" ->
                 KeywordArgument(NativeStr(e.subs[1].value), subs[2]).val
          [] e.cls = "DictEntry" -> DictEntry(subs[1], subs[2]).val
          [] e.cls = "ListLiteral" -> ListLiteral(Elements(subs[1])).val
          [] e.cls = "_Invocation" ->
                 CollectionLiteral("_Invocation", e.brackets, Elements(subs[1])).val
          [] e.cls = "Call" -> Call(subs[1], Elements(subs[2].subs[1]), <<>>).val
          [] OTHER -> [e EXCEPT !.subs = subs]

\* x.eq_(other), other.eq_(x) and x.hash_() == other.hash_()
Compared(name, other, al) ==
    Ret("eq_", "", <<>>, FormattingConfig(80, 4, TRUE), name,
        <<eq_(x, other, al), eq_(other, x, al), hash_(x, al) = hash_(other, al)>>)

\* x is compared with y
Compare ==
    /\ ~Cyclic(x, alias_expression) /\ ~Cyclic(y, alias_expression)
    /\ ret' = Compared("y", y, alias_expression)
    /\ UNCHANGED <<other_modules, x, y, alias_expression, last_target, default_format, reg_log>>

\* x is compared with the expression rebuilt from x without the alias
CompareRebuilt ==
    /\ ContainsAlias(x) /\ ~Cyclic(x, alias_expression)
    /\ ret' = Compared("rebuilt", Rebuild(x, alias_expression), alias_expression)
    /\ UNCHANGED <<other_modules, x, y, alias_expression, last_target, default_format, reg_log>>

-----------------------------------------------------------------------------
(* The registry of default formatters *)

Formatters == {"python", "custom", "other"}

\* variant: a later registration replaces the formatter registered before
register_default_format_replacing ==
    \E expression_format \in Formatters, single_line \in BOOLEAN :
        /\ Len(reg_log) < MaxRegs
        /\ ret' = Called("_register_default_format",
                         IF single_line \in DOMAIN default_format
                         THEN "RuntimeError" ELSE "")
        /\ default_format' =
               [f \in DOMAIN default_format \cup {single_line} |->
                   IF f = single_line THEN expression_format
                   ELSE default_format[f]]
        /\ reg_log' = Append(reg_log,
                             [expression_format |-> expression_format,
                              single_line |-> single_line,
                              err |-> ret'.err])
        /\ UNCHANGED <<other_modules, x, y, alias_expression, last_target>>

\* ExpressionFormatter._register_default_format
register_default_format ==
    \E expression_format \in Formatters, single_line \in BOOLEAN :
        /\ Len(reg_log) < MaxRegs
        /\ IF single_line \in DOMAIN default_format
           THEN /\ ret' = Called("_register_default_format", "RuntimeError")
                /\ UNCHANGED default_format
           ELSE /\ ret' = Called("_register_default_format", "")
                /\ default_format' =
                       [f \in DOMAIN default_format \cup {single_line} |->
                           IF f = single_line THEN expression_format
                           ELSE default_format[f]]
        /\ reg_log' = Append(reg_log,
                             [expression_format |-> expression_format,
                              single_line |-> single_line,
                              err |-> ret'.err])
        /\ UNCHANGED <<other_modules, x, y, alias_expression, last_target>>

\* ExpressionFormatter.default
default ==
    \E single_line \in BOOLEAN :
        /\ ret' = IF single_line \in DOMAIN default_format
                  THEN Ret("default", "", <<>>, FormattingConfig(80, 4, single_line),
                           default_format[single_line], <<>>)
                  ELSE Ret("default", "KeyError", <<>>,
                           FormattingConfig(80, 4, single_line), "", <<>>)
        /\ UNCHANGED <<other_modules, x, y, alias_expression, last_target, default_format, reg_log>>

-----------------------------------------------------------------------------
(* The client of the constructors that convert their arguments *)

IdF == Node("Id", "", "", <<"f">>, <<>>)

\* native scalars passed as arguments
Scalars == {NativeInt(<<"2">>), NativeStr(<<"b">>)}

\* the values at hand as arguments: an identifier, scalars and the expression
\* held
Arguments ==
    {IdA} \cup Scalars \cup (IF Size(x) <= MaxKept THEN {x} ELSE {})

ArgumentLists ==
    {<<>>} \cup {<<p>> : p \in Arguments}
        \cup {<<p, q>> : p \in Arguments, q \in Arguments}

\* the elements of a native container
ScalarLists ==
    {<<>>} \cup {<<p>> : p \in Scalars}
        \cup {<<p, q>> : p \in Scalars, q \in Scalars}

\* **kwargs of a call, in insertion order
KeywordLists ==
    {<<>>, <<<<NativeStr(<<"k">>), NativeInt(<<"2">>)>>>>,
     <<<<NativeStr(<<"k">>), Lit1>>, <<NativeStr(<<"j">>), NativeStr(<<"b">>)>>>>}

\* the parts of a slice
SliceParts == {None, NativeInt(<<"2">>)}

\* a function (it has a __name__) and an object without a __name__
NativeFunction == Native("function", <<"<", "g", ">">>, <<>>, <<"g">>)
NativeObject == Native("object", <<"<", "o", ">">>, <<>>, <<>>)

\* the native values handed to make_expression
Natives ==
    Scalars \cup {None, NativeFunction, NativeObject, FrozenExpression(x)}
        \cup {NativeSlice(start, stop, step) :
                  start \in SliceParts, stop \in SliceParts, step \in SliceParts}
        \cup UNION {{NativeList(items), NativeTuple(items), NativeSet(items),
                     NativeRange(items)} : items \in ScalarLists}
        \cup {NativeDict(<<>>), NativeDict(<<<<NativeStr(<<"b">>), Lit1>>>>),
              NativeDict(<<<<NativeStr(<<"b">>), Lit1>>, <<NativeInt(<<"2">>), IdA>>>>)}

\* the names handed to Id
Names ==
    {NativeStr(<<>>), NativeStr(<<"a">>), NativeStr(<<"a", "\n", "b">>), None,
     NativeFunction, NativeObject}

\* x = <constructor call>(args): x is bound to the node built, or keeps its
\* value when the constructor raises
Bind(call, args, outcome) ==
    /\ outcome.err = "" => Size(outcome.val) <= MaxBuilt
    /\ x' = IF outcome.err = "" THEN outcome.val ELSE x
    /\ ret' = CalledWith(call, outcome.err, args)
    /\ UNCHANGED <<other_modules, y, alias_expression, last_target, default_format, reg_log>>

\* x = Operation(BinaryOperator.COMMA, *operands)
NewCommaOperation ==
    \E operands \in ArgumentLists :
        Bind("Operation", operands, Operation("COMMA", operands))

\* x = ListLiteral(*elements)
NewCollection ==
    \E elements \in ArgumentLists :
        Bind("ListLiteral", elements, ListLiteral(elements))

\* x = Call(f, *args, **kwargs)
NewCallWith ==
    \E args \in ArgumentLists, kwargs \in KeywordLists :
        Bind("Call", <<args, kwargs>>, Call(IdF, args, kwargs))

\* x = Index(a, key)
NewIndex ==
    \E key \in Arguments \cup {NativeTuple(items) : items \in ArgumentLists} :
        Bind("Index", <<key>>, Index(IdA, key))

\* x = make_expression(value)
MakeExpression ==
    \E value \in Natives \cup Arguments :
        Bind("make_expression", <<value>>, Built(make_expression(value)))

\* x = Lambda(*params, body=body)
NewLambda ==
    \E params \in {SubSeq(<<IdA, IdF>>, 1, n) : n \in 0..2},
       body \in Arguments :
        Bind("Lambda", <<params, body>>, Lambda(params, body))

\* x = Id(name)
NewId ==
    \E name \in Names : Bind("Id", <<name>>, Id(name))

-----------------------------------------------------------------------------
(* The client of the overloaded operators of Expression *)

\* the operations the client builds from literals and identifiers:
\* Lit(1) <op> Lit(2), Lit('x') <op> Id.x, Id.a <op> Id.b, a + b + c
ExampleOperations ==
    ({"OR_BITWISE", "RSHIFT", "MOD"}
         \X {<<Lit(<<"1">>), Lit(<<"2">>)>>,
             <<Lit(repr(NativeStr(<<"x">>))), Id(NativeStr(<<"x">>)).val>>})
        \cup {<<"ADD", <<IdA, Id(NativeStr(<<"b">>)).val>>>>,
              <<"ADD", <<IdA, Id(NativeStr(<<"b">>)).val,
                         Id(NativeStr(<<"c">>)).val>>>>}

\* x = <constructor or operator call>, of at most MaxExample nodes
BindExample(call, outcome) ==
    /\ outcome.err = "" /\ Size(outcome.val) <= MaxExample
    /\ x' = outcome.val
    /\ ret' = Called(call, "")
    /\ UNCHANGED <<other_modules, y, alias_expression, last_target, default_format, reg_log>>

NewExampleOperation ==
    \E operation \in ExampleOperations :
        BindExample("Operation", Operation(operation[1], operation[2]))

\* x = y | x, x = y >> x, x = y % x: Expression.__or__, __rshift__, __mod__,
\* of two operations of literals and identifiers
Overload ==
    \E operator \in {"OR_BITWISE", "RSHIFT", "MOD"} :
        /\ y # Epsilon /\ Size(x) <= MaxKept
        /\ BindExample("Overload", Operation(operator, <<y, x>>))

\* x = 2 <op> x for the operators that have a reflected overload: int returns
\* NotImplemented and Python calls the reflected overload of x
ReflectedOverload ==
    \E operator \in {"ADD", "SUB", "MUL", "MATMUL", "DIV", "FLOOR_DIV", "MOD",
                      "POW", "LSHIFT", "RSHIFT", "AND_BITWISE", "XOR_BITWISE",
                      "OR_BITWISE"},
       other \in {NativeInt(<<"2">>)} :
        LET outcome == reflected_overload(operator, x, other)
        IN  /\ x # Epsilon /\ Size(x) <= MaxKept
            /\ x' = IF outcome.err = "" THEN outcome.val ELSE x
            /\ ret' = CalledWith("ReflectedOverload", outcome.err,
                                 <<operator, other>>)
            /\ UNCHANGED <<other_modules, y, alias_expression, last_target,
                           default_format, reg_log>>

\* x = Id.f(x, abc=-Lit(5)): Expression.__call__ and Expression.__neg__
NewExampleCall ==
    /\ x # Epsilon
    /\ BindExample("Call",
                   Call(IdF, <<x>>,
                        <<<<NativeStr(<<"a", "b", "c">>),
                            UnaryOperation("NEG", Lit(<<"5">>)).val>>>>))

\* PythonExpressionFormatter(max_width, single_line).to_text(x), on one line
\* and within five characters
ToTextExample ==
    \E config \in {FormattingConfig(80, 4, TRUE), FormattingConfig(5, 4, FALSE)} :
        LET r == to_text(x, config, NoAlias)
        IN  /\ ret' = Ret("to_text", IF r.ok THEN "" ELSE "IndexError",
                          r.text, config, "", <<>>)
            /\ UNCHANGED <<other_modules, x, y, alias_expression, last_target, default_format,
                           reg_log>>

-----------------------------------------------------------------------------
(* pytools.parallelization: job queues and JobRunner.run_queues *)

\* A job queue is a record [jobs, len]: jobs is what jobs() yields, a sequence
\* of jobs, and len is what __len__ returns. A job is a number, and running it
\* returns that number as its result.
NoGenerator == [state |-> "none"]

\* the number of jobs the client has created so far, and the sum of the
\* lengths its queues report
JobsCreated == SumSeq(AsSeq([k \in 1..Len(queues) |-> Len(queues[k].jobs)]))
LengthsReported == SumSeq(AsSeq([k \in 1..Len(queues) |-> queues[k].len]))

\* queues.append(SimpleQueue(jobs)), or a JobQueue subclass of the client
\* whose __len__ returns any number
NewQueue ==
    \E n \in 0..MaxJobs, len_ \in 0..MaxJobs, simple \in BOOLEAN :
        /\ generator = NoGenerator /\ Len(queues) < MaxQueues
        /\ JobsCreated + n <= MaxQueues * MaxJobs
        /\ LengthsReported + len_ <= MaxQueues * MaxJobs
        /\ simple => len_ = n
        /\ queues' = Append(queues,
                            [jobs |-> AsSeq([i \in 1..n |-> JobsCreated + i]),
                             len |-> len_])
        /\ ret' = Called(IF simple THEN "SimpleQueue" ELSE "JobQueue", "")
        /\ UNCHANGED <<expression_vars, generator, decorated, events, matrix, n_columns>>

\* queues = [NestedQueue(queues)]
NewNestedQueue ==
    /\ generator = NoGenerator /\ Len(queues) >= 2
    /\ queues' =
           <<[jobs |-> JoinText(<<>>, AsSeq([k \in 1..Len(queues) |-> queues[k].jobs])),
              len |-> SumSeq(AsSeq([k \in 1..Len(queues) |-> queues[k].len]))]>>
    /\ ret' = Called("NestedQueue", "")
    /\ UNCHANGED <<expression_vars, generator, decorated, events, matrix, n_columns>>

\* generator = runner.run_queues(*queues): the body of a generator function
\* does not run before the first next()
run_queues ==
    /\ generator = NoGenerator
    /\ generator' = [state |-> "created", queues |-> queues, results |-> <<>>,
                     first_job |-> 0, queue |-> 1, collated |-> <<>>]
    /\ ret' = Called("run_queues", "")
    /\ UNCHANGED <<expression_vars, queues, decorated, events, matrix, n_columns>>

\* next(generator): up to the check of the lengths at the first call, then up
\* to the next yield or to the end of the loop. results[first_job:last_job] is
\* SubSeq(results, first_job + 1, min(last_job, len(results))).
next ==
    LET qs == generator.queues
        started == generator.state = "suspended"
        results ==
            IF started THEN generator.results
            ELSE JoinText(<<>>, AsSeq([k \in 1..Len(qs) |-> qs[k].jobs]))
        queues_len == SumSeq(AsSeq([k \in 1..Len(qs) |-> qs[k].len]))
        k == generator.queue
        last_job == generator.first_job + qs[k].len
    IN  /\ generator.state \in {"created", "suspended"}
        /\ IF ~started /\ Len(results) # queues_len
           THEN /\ generator' = [generator EXCEPT !.state = "raised",
                                                  !.results = results]
                /\ ret' = Called("next", "AssertionError")
           ELSE IF k > Len(qs)
           THEN /\ generator' = [generator EXCEPT !.state = "finished",
                                                  !.results = results]
                /\ ret' = Called("next", "StopIteration")
           ELSE /\ generator' =
                       [generator EXCEPT
                            !.state = "suspended",
                            !.results = results,
                            !.collated =
                                Append(@, [queue |-> k,
                                           job_results |->
                                               SubSeq(results,
                                                      generator.first_job + 1,
                                                      Min(last_job, Len(results)))]),
                            !.first_job = last_job,
                            !.queue = k + 1]
                /\ ret' = Called("next", "")
        /\ UNCHANGED <<expression_vars, queues, decorated, events, matrix, n_columns>>

-----------------------------------------------------------------------------
(* gamma.common: the decorator deprecated *)

\* A callable is a record [type, qualname, raises]: type is type(func).__name__,
\* qualname is func.__qualname__, and raises tells whether a call of it raises
\* an exception or returns; a message is None or a str, whose value is a string.
NoFunction == [kind |-> "none"]
Function(type_name, qualname, raises) ==
    [kind |-> "callable", type |-> type_name, qualname |-> qualname,
     raises |-> raises]

\* variant: the wrapped function is called before the warning is issued
new_func_warning_last(func, message, args) ==
    LET message_header ==
            "Call to deprecated " \o func.type \o " " \o func.qualname
    IN  <<[event |-> "call", func |-> func.qualname, args |-> args],
          [event |-> "warn", category |-> "FutureWarning",
           text |-> IF message = None THEN message_header
                    ELSE message_header \o ": " \o message.value]>>

\* new_func(*args) of deprecated._deprecated_inner: the events of a call of the
\* wrapper, the warning issued by warnings.warn and the call of func
new_func(func, message, args) ==
    LET message_header ==
            "Call to deprecated " \o func.type \o " " \o func.qualname
    IN  <<[event |-> "warn", category |-> "FutureWarning",
           text |-> IF message = None THEN message_header
                    ELSE message_header \o ": " \o message.value],
          [event |-> "call", func |-> func.qualname, args |-> args]>>

\* deprecated(function, message=message); the decorator it returns for
\* function=None is applied to func at once, as in @deprecated(message=...)
deprecated(function, message, func) ==
    IF function = None
    THEN Built([kind |-> "wrapper", func |-> func, message |-> message])
    ELSE IF function.kind = "callable"
    THEN Built([kind |-> "wrapper", func |-> function, message |-> message])
    ELSE Raised("ValueError")

\* @deprecated def f / @deprecated(message=...) def f / @deprecated("...") /
\* deprecated(42)
Decorate ==
    \E func \in {Function("function", "f", FALSE),
                  Function("function", "C.__init__", TRUE),
                  Function("builtin_function_or_method", "len", FALSE)},
       message \in {None, Native("str", "", <<>>, <<>>),
                    Native("str", "test message", <<>>, <<>>)} :
      \E function \in {None, func, [kind |-> "str"], [kind |-> "int"]} :
        LET outcome == deprecated(function, message, func)
        IN  /\ decorated = NoFunction
            /\ function # None => message = None
            /\ decorated' = IF outcome.err = "" THEN outcome.val ELSE decorated
            /\ ret' = CalledWith("deprecated", outcome.err, <<function, message>>)
            /\ UNCHANGED <<expression_vars, queues, generator, events, matrix, n_columns>>

\* decorated(*args): a call of the wrapper; the result or the exception of
\* func is that of the wrapper
CallDecorated ==
    \E args \in {<<>>, <<NativeInt(<<"2">>)>>} :
        /\ decorated # NoFunction /\ Len(events) < 2 * MaxCalls
        /\ events' = events \o new_func(decorated.func, decorated.message, args)
        /\ ret' = [CalledWith("new_func",
                              IF decorated.func.raises THEN "RuntimeError" ELSE "",
                              args)
                      EXCEPT !.other = IF decorated.func.raises THEN ""
                                       ELSE <<decorated.func.qualname, args>>]
        /\ UNCHANGED <<expression_vars, queues, generator, decorated, matrix, n_columns>>

-----------------------------------------------------------------------------
(* pytools.viz.text: CharacterMatrix *)

\* The matrix is the list _matrix of lines, each a list of one-character
\* strings; NoMatrix stands for no matrix constructed yet.  An index is an int,
\* [kind |-> "int", index |-> i], or a slice, [kind |-> "slice", start, stop,
\* step], whose parts are <<>> for None or <<i>> for the int i.  Rows and
\* columns are counted from 0 as in the code.
NoMatrix == <<>>
IntIndex(index) == [kind |-> "int", index |-> index]
Slice(start, stop, step) ==
    [kind |-> "slice", start |-> start, stop |-> stop, step |-> step]

\* slice.indices(length) of Python: [err, start, stop, step]
indices(slice, length) ==
    LET step == IF slice.step = <<>> THEN 1 ELSE slice.step[1]
        lower == IF step < 0 THEN 0 - 1 ELSE 0
        upper == IF step < 0 THEN length - 1 ELSE length
        adjust(part, missing) ==
            IF part = <<>> THEN missing
            ELSE LET index == IF part[1] < 0 THEN part[1] + length ELSE part[1]
                 IN  IF index < lower THEN lower
                     ELSE IF index > upper THEN upper
                     ELSE index
    IN  IF step = 0 THEN [err |-> "ValueError", start |-> 0, stop |-> 0, step |-> 1]
        ELSE [err |-> "",
              start |-> adjust(slice.start, IF step < 0 THEN upper ELSE lower),
              stop |-> adjust(slice.stop, IF step < 0 THEN lower ELSE upper),
              step |-> step]

\* range(start, stop, step) of Python as the sequence of its elements
range(start, stop, step) ==
    LET count == IF step > 0
                 THEN (IF stop > start
                       THEN (stop - start + step - 1) \div step ELSE 0)
                 ELSE (IF start > stop
                       THEN (start - stop - step - 1) \div (0 - step) ELSE 0)
    IN  [k \in 1..count |-> start + (k - 1) * step]

\* variant: an int index stands for the slice from the index to the end
to_slice_to_the_end(index) ==
    IF index.kind = "int" THEN Slice(<<index.index>>, <<>>, <<>>)
    ELSE index

\* _to_slice of CharacterMatrix._key_as_slices
to_slice(index) ==
    IF index.kind = "int" THEN Slice(<<index.index>>, <<index.index + 1>>, <<>>)
    ELSE index

\* CharacterMatrix._key_as_slices: [err, rows, columns]; a key is a sequence
\* of indices, the tuple given as key, or <<>> for a key that is no tuple
key_as_slices(key) ==
    IF Len(key) # 2
    THEN [err |-> "ValueError", rows |-> Slice(<<>>, <<>>, <<>>),
          columns |-> Slice(<<>>, <<>>, <<>>)]
    ELSE [err |-> "", rows |-> to_slice(key[1]), columns |-> to_slice(key[2])]

\* the keys the client uses: a key that is no tuple, and the pairs of a row
\* index and a column index among ints inside and outside the matrix and
\* slices with open ends, with steps 2, -1 and 0, and with ends outside the
\* matrix
MatrixKeys ==
    {<<>>}
        \cup (({IntIndex(i) : i \in {0 - 1, 0, MaxRows}}
                   \cup {Slice(<<>>, <<>>, step) : step \in {<<>>, <<0>>}})
               \X ({IntIndex(i) : i \in {0 - 2, 1}}
                      \cup {Slice(<<>>, <<>>, step) :
                                step \in {<<>>, <<2>>, <<0 - 1>>}}
                      \cup {Slice(<<0 - 1>>, <<MaxColumns + 3>>, <<>>)}))

\* matrix = CharacterMatrix(n_rows, n_columns); the two ints are recorded as
\* the arguments of the call
CharacterMatrix ==
    \E rows \in (0 - 1)..MaxRows, columns \in (0 - 1)..MaxColumns :
        /\ matrix = NoMatrix
        /\ IF columns <= 0 \/ rows <= 0
           THEN /\ ret' = CalledWith("CharacterMatrix", "ValueError",
                                     <<IntIndex(rows), IntIndex(columns)>>)
                /\ UNCHANGED <<matrix, n_columns>>
           ELSE /\ ret' = CalledWith("CharacterMatrix", "",
                                     <<IntIndex(rows), IntIndex(columns)>>)
                /\ n_columns' = columns
                /\ matrix' = [i \in 1..rows |-> [j \in 1..columns |-> " "]]
        /\ UNCHANGED <<expression_vars, queues, generator, decorated, events>>

\* matrix[key] = value: CharacterMatrix.__setitem__; value is given by the
\* text str(value), and the key is recorded as the argument of the call
setitem ==
    \E key \in MatrixKeys,
       value \in {<<>>, <<"x">>, <<"a", "b">>} :
        LET slices == key_as_slices(key)
            single_char == Len(value) = 1
            columns == indices(slices.columns, n_columns)
            rows == indices(slices.rows, Len(matrix))
            positions == range(columns.start, columns.stop, columns.step)
            lines == range(rows.start, rows.stop, rows.step)
            \* the character written at column pos (from 0), <<>> for none
            written(pos) ==
                IF single_char
                THEN (IF \E k \in 1..Len(positions) : positions[k] = pos
                      THEN <<value[1]>> ELSE <<>>)
                ELSE LET zipped == {k \in 1..Len(positions) :
                                        k <= Len(value) /\ positions[k] = pos}
                     IN  IF zipped = {} THEN <<>>
                         ELSE <<value[CHOOSE k \in zipped : TRUE]>>
            err == IF slices.err # "" THEN slices.err
                   ELSE IF columns.err # "" THEN columns.err
                   ELSE rows.err
        IN  /\ matrix # NoMatrix
            /\ ret' = CalledWith("setitem", err, key)
            /\ matrix' =
                   IF err # "" THEN matrix
                   ELSE [i \in 1..Len(matrix) |->
                            IF \E k \in 1..Len(lines) : lines[k] = i - 1
                            THEN [j \in 1..Len(matrix[i]) |->
                                     IF written(j - 1) # <<>>
                                     THEN written(j - 1)[1]
                                     ELSE matrix[i][j]]
                            ELSE matrix[i]]
            /\ UNCHANGED <<expression_vars, queues, generator, decorated, events,
                           n_columns>>

-----------------------------------------------------------------------------
(* Specifications *)

Init ==
    /\ x = Epsilon
    /\ y = Epsilon
    /\ alias_expression = NoAlias
    /\ last_target = NoAlias
    /\ ret = Called("", "")
    /\ default_format = <<>>
    /\ reg_log = <<>>
    /\ queues = <<>>
    /\ generator = NoGenerator
    /\ decorated = NoFunction
    /\ events = <<>>
    /\ matrix = NoMatrix
    /\ n_columns = 0

Build ==
    \/ NewAtom
    \/ NewOperation
    \/ NewUnaryOperation
    \/ NewAttr
    \/ NewKeywordArgument
    \/ NewDictEntry
    \/ NewListLiteral
    \/ NewCall

\* the constructors used around aliases and in comparisons
BuildCore ==
    \/ NewAtom
    \/ NewOperation
    \/ NewUnaryOperation
    \/ NewDictEntry
    \/ NewListLiteral

\* a client that builds one expression and renders it
Next == Build \/ ToText

Spec == Init /\ [][Next]_vars

\* a client that builds expressions around an alias, renders them and compares
\* them with the expressions rebuilt without the alias
NextAlias ==
    BuildCore \/ NewExpressionAlias \/ set_expression_ \/ ToText \/ CompareRebuilt

SpecAlias == Init /\ [][NextAlias]_vars

\* a client that builds two expressions and compares them
NextCompare == BuildCore \/ Keep \/ Compare

SpecCompare == Init /\ [][NextCompare]_vars

\* a client that builds expressions from native values, keyword arguments and
\* keys
NextBuild ==
    \/ NewAtom
    \/ NewCommaOperation
    \/ NewCollection
    \/ NewCallWith
    \/ NewIndex
    \/ MakeExpression
    \/ NewId
    \/ NewLambda

SpecBuild == Init /\ [][NextBuild]_vars

\* a client that builds expressions with the overloaded operators and renders
\* them
NextExample ==
    \/ NewExampleOperation
    \/ Keep
    \/ Overload
    \/ NewExampleCall
    \/ NewId
    \/ ToTextExample

SpecExample == Init /\ [][NextExample]_vars

\* a client that applies the operators to a native left operand and an
\* expression
NextReflected == NewExampleOperation \/ NewId \/ ReflectedOverload

SpecReflected == Init /\ [][NextReflected]_vars

\* a client that builds job queues and iterates over the results of running
\* them
NextRunner == NewQueue \/ NewNestedQueue \/ run_queues \/ next

SpecRunner == Init /\ [][NextRunner]_vars

\* a client that deprecates a function and calls it
NextDeprecated == Decorate \/ CallDecorated

SpecDeprecated == Init /\ [][NextDeprecated]_vars

\* a client that constructs a character matrix and assigns to its items
NextMatrix == CharacterMatrix \/ setitem

SpecMatrix == Init /\ [][NextMatrix]_vars

NextRegistry == register_default_format \/ default

SpecRegistry == Init /\ [][NextRegistry]_vars

-----------------------------------------------------------------------------
(* Properties of the textual forms (specification Spec) *)

\* all nodes of an expression tree
RECURSIVE Nodes(_)
Nodes(e) == {e} \cup UNION {Nodes(e.subs[i]) : i \in 1..Len(e.subs)}

\* the single-line text of an expression, and a text in round brackets
Text(e, al) == to_single_line(from_expression(e, al))
Wrapped(text) == <<"(">> \o text \o <<")">>

LengthAgrees(form) == len(form) = Len(to_single_line(form))

\* the length agrees for a form, for its two encapsulations and for all the
\* forms nested in it
RECURSIVE LengthsAgree(_)
LengthsAgree(form) ==
    /\ LengthAgrees(form)
    /\ LengthAgrees(encapsulate(form, TRUE, TRUE))
    /\ LengthAgrees(encapsulate(form, TRUE, FALSE))
    /\ CASE form.form = "BracketedForm" -> LengthsAgree(form.subform)
         [] form.form = "PrefixForm" ->
                LengthsAgree(form.prefix) /\ LengthsAgree(form.body)
         [] form.form = "InfixForm" ->
                \A i \in 1..Len(form.subforms) : LengthsAgree(form.subforms[i])
         [] OTHER -> TRUE

\* C1: for every textual form built from an expression, at every nesting
\* depth and for both kinds of encapsulation, len(form) is the number of
\* characters of form.to_single_line(); a single-line to_text returns a text
\* of the length of the form it lays out.
C1_LenIsSingleLineLength ==
    ~Cyclic(x, alias_expression) =>
        /\ LengthsAgree(from_expression(x, alias_expression))
        /\ LengthsAgree(top_form(x, alias_expression))
        /\ (ret.call = "to_text" /\ ret.config.single_line) =>
               Len(ret.text) = len(top_form(x, alias_expression))

\* -(a + 1) has been rendered in a single line
C1_Witness ==
    /\ ret.call = "to_text" /\ ret.config.single_line
    /\ x.cls = "UnaryOperation"
    /\ ret.text = <<"-", "(", "a", " ", "+", " ", "1", ")">>

\* the text of operand i of an infix expression inside the expression's text
OperandText(n, i, al) == to_single_line(from_infix_expression(n, al).subforms[i])

APlusOneTimesA ==
    Operation("ADD", <<IdA, Operation("MUL", <<Lit1, IdA>>).val>>).val
APlusOneAllTimesA ==
    Operation("MUL", <<Operation("ADD", <<IdA, Lit1>>).val, IdA>>).val

\* C2: in the single-line text of an infix operation every operand that binds
\* strictly looser than the operation is wrapped in round brackets and every
\* operand that binds strictly tighter is rendered without brackets;
\* a + 1 * a has no brackets and (a + 1) * a has them around a + 1.
C2_LooserOperandsWrapped ==
    /\ \A n \in Nodes(x) :
           n.cls \in OperationClasses =>
               \A i \in 1..Len(n.subs) :
                   LET al == alias_expression
                       sub == precedence_(n.subs[i], al)
                       parent == precedence_(n, al)
                   IN  /\ sub < parent =>
                              OperandText(n, i, al) = Wrapped(Text(n.subs[i], al))
                       /\ sub > parent =>
                              OperandText(n, i, al) = Text(n.subs[i], al)
    /\ (ret.call = "to_text" /\ ret.config.single_line) =>
           /\ x = APlusOneTimesA => ret.text = <<"a", " ", "+", " ", "1", " ", "*", " ", "a">>
           /\ x = APlusOneAllTimesA => ret.text = <<"(", "a", " ", "+", " ", "1", ")", " ", "*", " ", "a">>

\* (a + 1) * a has been rendered in a single line
C2_Witness ==
    /\ ret.call = "to_text" /\ ret.config.single_line
    /\ x = APlusOneAllTimesA
    /\ ret.text = <<"(", "a", " ", "+", " ", "1", ")", " ", "*", " ", "a">>

\* the text of child i of an infix or prefix expression inside the
\* expression's text
ChildText(n, i, al) ==
    IF n.cls \in OperationClasses THEN OperandText(n, i, al)
    ELSE LET form == from_prefix_expression(n, al)
         IN  to_single_line(IF i = 1 THEN form.prefix ELSE form.body)

\* the children of n whose precedence equals the precedence of n
EqualChildren(n, al) ==
    IF n.cls \in OperationClasses \cup PrefixClasses
    THEN {i \in 1..Len(n.subs) : precedence_(n.subs[i], al) = precedence_(n, al)}
    ELSE {}

APlusOnePlusA ==
    Operation("ADD", <<Operation("ADD", <<IdA, Lit1>>).val, IdA>>).val

\* C4: Operation(op, x1, x2) whose first operand is an Operation with the same
\* operator has the operands of x1 followed by x2; an operand with the same
\* operator in a later position is kept as it is; no Operation of a tree
\* built by the constructors has as its first operand an Operation with the
\* same operator; Operation(ADD, Operation(ADD, a, 1), a) renders a + 1 + a.
C4_FirstOperandFlattened ==
    /\ \A n \in Nodes(x) :
           n.cls \in OperationClasses =>
               ~(/\ n.subs[1].cls \in OperationClasses
                 /\ n.subs[1].operator = n.operator)
    /\ \A operator \in {"ADD", "SUB", "MUL"}, p \in Nodes(x), q \in Atoms :
           /\ Operation(operator, <<p, q>>).val.subs
                  = IF p.cls \in OperationClasses /\ p.operator = operator
                    THEN p.subs \o <<q>> ELSE <<p, q>>
           /\ Operation(operator, <<q, p>>).val.subs = <<q, p>>
    /\ x = APlusOnePlusA =>
           /\ x.subs = <<IdA, Lit1, IdA>>
           /\ (ret.call = "to_text" /\ ret.config.single_line) =>
                  ret.text = <<"a", " ", "+", " ", "1", " ", "+", " ", "a">>

\* Operation(ADD, Operation(ADD, a, 1), a) has been built
C4_Witness ==
    /\ ret.call = "Operation" /\ ret.err = ""
    /\ x.cls = "Operation" /\ x.operator = "ADD"
    /\ x.subs = <<IdA, Lit1, IdA>>

\* C5 as stated: in multi-line mode an expression whose single-line length is
\* at most max_width is rendered in exactly one line, and an expression whose
\* single-line length is max_width + 1 or more in more than one line
\* (checked where to_text returns a text).
C5_OneLineIffFits ==
    (ret.call = "to_text" /\ ~ret.config.single_line /\ ret.err = "") =>
        IF Len(Text(x, alias_expression)) <= ret.config.max_width
        THEN NumLines(ret.text) = 1
        ELSE NumLines(ret.text) > 1

\* C5 amended: in multi-line mode an expression whose single-line length is
\* at most max_width is rendered in exactly one line; a collection literal or
\* an infix operation whose single-line length is max_width + 1 or more is
\* never returned as a single line.
C5_OneLineIfFits ==
    (ret.call = "to_text" /\ ~ret.config.single_line
        /\ ~Cyclic(x, alias_expression)) =>
        IF Len(Text(x, alias_expression)) <= ret.config.max_width
        THEN ret.err = "" /\ NumLines(ret.text) = 1
        ELSE x.cls \in BracketedClasses \cup OperationClasses
                 => ~(ret.err = "" /\ NumLines(ret.text) = 1)

\* [a + 1], one character longer than max_width 6, has been rendered in three
\* lines
C5_Witness ==
    /\ ret.call = "to_text" /\ ~ret.config.single_line
    /\ ret.config.max_width = 6
    /\ Len(Text(x, alias_expression)) = 7
    /\ ret.text = <<"[", "\n", " ", "a", " ", "+", " ", "1", "\n", "]">>

\* C6 as stated: to_text in multi-line mode raises no error for any expression
\* the constructors accept, at any max_width and indent_width.
C6_LayoutRaisesNoError ==
    (ret.call = "to_text" /\ ~ret.config.single_line
        /\ ~Cyclic(x, alias_expression)) => ret.err = ""

-----------------------------------------------------------------------------
(* Properties of the registry (specification SpecRegistry) *)

\* the registrations for the flag value among the first n attempts
Attempts(single_line, n) ==
    {i \in 1..n : reg_log[i].single_line = single_line}

\* the first registration attempted for the flag value
FirstAttempt(single_line) ==
    CHOOSE i \in Attempts(single_line, Len(reg_log)) :
        \A j \in Attempts(single_line, Len(reg_log)) : i <= j

\* C7: the first registration for a flag value succeeds; every later one for
\* the same flag value fails with RuntimeError and leaves the registry as it
\* was, so the formatter looked up for the flag value is the first one
\* registered; registrations for the other flag value have no effect on it.
C7_FirstRegistrationStays ==
    /\ \A i \in 1..Len(reg_log) :
           reg_log[i].err
               = IF Attempts(reg_log[i].single_line, i - 1) = {}
                 THEN "" ELSE "RuntimeError"
    /\ \A single_line \in BOOLEAN :
           IF Attempts(single_line, Len(reg_log)) = {}
           THEN single_line \notin DOMAIN default_format
           ELSE /\ single_line \in DOMAIN default_format
                /\ default_format[single_line]
                       = reg_log[FirstAttempt(single_line)].expression_format
    /\ ret.call = "default" =>
           IF Attempts(ret.config.single_line, Len(reg_log)) = {}
           THEN ret.err = "KeyError"
           ELSE /\ ret.err = ""
                /\ ret.other
                       = reg_log[FirstAttempt(ret.config.single_line)].expression_format

\* after a second registration for single_line = TRUE was refused and one for
\* FALSE accepted, the default for TRUE has been looked up
C7_Witness ==
    /\ Len(reg_log) = 3
    /\ reg_log[1].single_line /\ reg_log[1].expression_format = "python"
    /\ reg_log[2].single_line /\ reg_log[2].expression_format = "custom"
    /\ reg_log[2].err = "RuntimeError"
    /\ ~reg_log[3].single_line /\ reg_log[3].err = ""
    /\ ret.call = "default" /\ ret.config.single_line /\ ret.other = "python"

-----------------------------------------------------------------------------
(* Properties of aliases (specification SpecAlias) *)

\* the text to_text returns for the expression rebuilt from x with the
\* expression last handed to the alias in the place of the alias
RebuiltText(config) ==
    LET r == to_text(Rebuild(x, last_target), config, NoAlias)
    IN  [err |-> IF r.ok THEN "" ELSE "IndexError", text |-> r.text]

\* x holds the alias and the alias does not lead back to itself
Aliased ==
    /\ ContainsAlias(x)
    /\ ~ContainsAlias(last_target)
    /\ ~Cyclic(x, alias_expression)

\* rebuilding the expression would flatten the target of the alias into an
\* operation that holds the alias as its first operand
FlattenedWhenRebuilt(e, al) ==
    \E n \in Nodes(e) :
        /\ n.cls \in OperationClasses
        /\ n.subs[1].cls = "ExpressionAlias"
        /\ al.cls \in OperationClasses
        /\ al.operator = n.operator

\* C8 as stated: after set_expression_(e2), an expression that holds the alias
\* renders, in single-line mode and in multi-line mode at any max_width, as
\* the text of the expression rebuilt with e2 in the place of the alias.
C8_RendersAsRebuilt ==
    (ret.call = "to_text" /\ Aliased) =>
        /\ ret.err = RebuiltText(ret.config).err
        /\ ret.text = RebuiltText(ret.config).text

\* C8, the part that holds: after set_expression_(e2), an expression that holds
\* the alias renders as the text of the expression rebuilt with e2 in the
\* place of the alias in single-line mode, and in multi-line mode unless the
\* alias is the first operand of an operation with the operator of e2
\* (rebuilding flattens such an operand, the alias keeps it nested).
C8_RendersAsRebuiltUnlessFlattened ==
    (ret.call = "to_text" /\ Aliased
        /\ (ret.config.single_line \/ ~FlattenedWhenRebuilt(x, last_target))) =>
        /\ ret.err = RebuiltText(ret.config).err
        /\ ret.text = RebuiltText(ret.config).text

\* a + alias, the alias directed to 1 * a by set_expression_, has been
\* rendered in several lines
C8_Witness ==
    /\ ret.call = "to_text" /\ ~ret.config.single_line /\ ret.err = ""
    /\ x.cls = "Operation" /\ x.operator = "ADD" /\ x.subs = <<IdA, TheAlias>>
    /\ alias_expression = Operation("MUL", <<Lit1, IdA>>).val
    /\ ret.text = <<"(", "\n", " ", "a", "\n", " ", "+", " ", "1", "\n", " ", "*", " ", "a", "\n", ")">>

\* C9 as stated: the expression built around an alias of e and the expression
\* built around e are eq_ in both argument orders and have the same hash_.
C9_AliasIndistinguishable ==
    (ret.call = "eq_" /\ ret.other = "rebuilt") =>
        ret.flags = <<TRUE, TRUE, TRUE>>

-----------------------------------------------------------------------------
(* Properties of equality (specification SpecCompare) *)

RECURSIVE StructurallyEqual(_, _)
\* same node type, operator, brackets and atomic value, the same number of
\* subexpressions, and pairwise structurally equal subexpressions
StructurallyEqual(a, b) ==
    /\ a.cls = b.cls
    /\ a.operator = b.operator
    /\ a.brackets = b.brackets
    /\ a.value = b.value
    /\ Len(a.subs) = Len(b.subs)
    /\ \A i \in 1..Len(a.subs) : StructurallyEqual(a.subs[i], b.subs[i])

\* C10 as stated: x.eq_(y) holds if and only if x and y have the same node
\* type, operator, brackets and atomic value, the same number of
\* subexpressions and pairwise equal subexpressions.
C10_EqualityIsStructural ==
    (ret.call = "eq_" /\ ret.other = "y") =>
        (ret.flags[1] <=> StructurallyEqual(x, y))

\* C11 as stated: x.eq_(y) implies x.hash_() == y.hash_().
C11_EqualImpliesSameHash ==
    (ret.call = "eq_" /\ ret.other = "y") => (ret.flags[1] => ret.flags[3])

-----------------------------------------------------------------------------
(* Properties of construction (specification Spec) *)

\* C12: Operation with fewer than two operands raises ValueError and builds
\* no node (x keeps the expression it was bound to), and every Operation in a
\* tree the constructors built has at least two operands.
C12_OperationNeedsTwoOperands ==
    [][/\ \A operator \in InfixOperators \ UnaryOperators, operands \in OperandLists :
              Len(operands) < 2 => Operation(operator, operands).err = "ValueError"
       /\ (ret'.call = "Operation" /\ ret'.err = "ValueError") => x' = x
       /\ \A n \in Nodes(x') : n.cls \in OperationClasses => Len(n.subs) >= 2]_vars

\* Operation with fewer than two operands has been refused while x holds an
\* operation of two operands
C12_Witness ==
    /\ ret.call = "Operation" /\ ret.err = "ValueError"
    /\ x.cls = "Operation" /\ Len(x.subs) = 2

-----------------------------------------------------------------------------
(* Properties of the converting constructors (specification SpecBuild) *)

\* the arguments of a call, converted by make_expression
Converted(args) == AsSeq([i \in 1..Len(args) |-> make_expression(args[i])])

\* the single-line texts of expressions, separated by a comma and a space
CommaSeparated(made) ==
    JoinText(<<",", " ">>, AsSeq([i \in 1..Len(made) |-> Text(made[i], NoAlias)]))

\* the subexpression that groups n converted elements: Epsilon, the element
\* itself, or a COMMA operation over all of them
Grouped(made) ==
    IF Len(made) = 0 THEN Epsilon
    ELSE IF Len(made) = 1 THEN made[1]
    ELSE Node("Operation", "COMMA", "", <<>>, made)

\* the first of two or more elements is itself a COMMA operation
FirstIsCommaOperation(made) ==
    /\ Len(made) >= 2
    /\ made[1].cls \in OperationClasses /\ made[1].operator = "COMMA"

\* C13 as stated: the bracketed subexpression of a collection literal built
\* from n elements is Epsilon (n = 0), the converted element (n = 1) or a COMMA
\* operation whose operands are exactly the n converted elements in order
\* (n >= 2); with atomic elements it renders [], [x], [x, y].
C13_CollectionSubexpression ==
    ret.call = "ListLiteral" =>
        LET made == Converted(ret.args)
        IN  /\ ret.err = ""
            /\ x.cls = "ListLiteral"
            /\ x.subs[1] = Grouped(made)
            /\ (\A i \in 1..Len(made) : made[i].cls \in AtomicClasses) =>
                   Text(x, NoAlias) = <<"[">> \o CommaSeparated(made) \o <<"]">>

\* C13, the part that holds: the same, unless the first of two or more elements
\* is itself a COMMA operation (its operands then take its place).
C13_CollectionSubexpressionUnlessFlattened ==
    (ret.call = "ListLiteral" /\ ~FirstIsCommaOperation(Converted(ret.args))) =>
        LET made == Converted(ret.args)
        IN  /\ ret.err = ""
            /\ x.cls = "ListLiteral"
            /\ x.subs[1] = Grouped(made)
            /\ (\A i \in 1..Len(made) : made[i].cls \in AtomicClasses) =>
                   Text(x, NoAlias) = <<"[">> \o CommaSeparated(made) \o <<"]">>

\* ListLiteral(a, 2) has been built and renders [a, 2]
C13_Witness ==
    /\ ret.call = "ListLiteral" /\ ret.args = <<IdA, NativeInt(<<"2">>)>>
    /\ x.subs[1].operator = "COMMA" /\ Len(x.subs[1].subs) = 2
    /\ Text(x, NoAlias) = <<"[", "a", ",", " ", "2", "]">>

\* the operands of the SLICE operation for the parts of a slice: Epsilon for
\* every unset part, the step left out when it is unset
SliceOperands(parts) ==
    LET operand(i) == IF parts[i] = None THEN Epsilon ELSE make_expression(parts[i])
    IN  IF parts[3] = None THEN <<operand(1), operand(2)>>
        ELSE <<operand(1), operand(2), operand(3)>>

Keywords(kwargs) ==
    AsSeq([i \in 1..Len(kwargs) |->
             Node("KeywordArgument", "", "", <<>>,
                  <<Node("Id", "", "", kwargs[i][1].value, <<>>),
                    make_expression(kwargs[i][2])>>)])

\* the texts name=value of the keyword arguments of a call
KeywordTexts(kwargs) ==
    AsSeq([i \in 1..Len(kwargs) |->
             kwargs[i][1].value \o <<"=">>
                 \o Text(make_expression(kwargs[i][2]), NoAlias)])

\* the arguments an invocation was called with: the positional arguments and
\* the keyword arguments of a call, the keys of an index
GivenArguments ==
    IF ret.call = "Call" THEN Converted(ret.args[1]) \o Keywords(ret.args[2])
    ELSE IF ret.args[1].cls = "tuple" THEN Converted(ret.args[1].items)
    ELSE Converted(ret.args)

\* the bracketed argument list holds exactly the given arguments in order, and
\* with atomic positional arguments the invocation renders f(...) or a[...]
\* with the arguments separated by a comma and a space
ArgumentsAsGiven ==
    /\ ret.err = ""
    /\ x.cls = ret.call
    /\ x.subs[1] = (IF ret.call = "Call" THEN IdF ELSE IdA)
    /\ x.subs[2] = Node("_Invocation", "",
                        IF ret.call = "Call" THEN "ROUND" ELSE "SQUARE", <<>>,
                        <<Grouped(GivenArguments)>>)
    /\ (ret.call = "Call"
            /\ \A i \in 1..Len(ret.args[1]) :
                   make_expression(ret.args[1][i]).cls \in AtomicClasses) =>
           Text(x, NoAlias) =
               <<"f", "(">>
                   \o JoinText(<<",", " ">>,
                               AsSeq([i \in 1..Len(ret.args[1]) |->
                                        Text(make_expression(ret.args[1][i]), NoAlias)])
                                   \o KeywordTexts(ret.args[2]))
                   \o <<")">>
    /\ (ret.call = "Index"
            /\ \A i \in 1..Len(GivenArguments) :
                   GivenArguments[i].cls \in AtomicClasses) =>
           Text(x, NoAlias) =
               <<"a", "[">> \o CommaSeparated(GivenArguments) \o <<"]">>

\* C15 as stated: the bracketed argument list of Call(callee, *args, **kwargs)
\* holds the positional arguments followed by one KeywordArgument per keyword
\* in insertion order, each rendered name=value; that of Index(collection,
\* key) holds one argument per element of a tuple key, otherwise the key.
C15_ArgumentsAsGiven ==
    ret.call \in {"Call", "Index"} => ArgumentsAsGiven

\* C15, the part that holds: the same, unless the first of two or more
\* arguments is itself a COMMA operation (its operands then take its place).
C15_ArgumentsAsGivenUnlessFlattened ==
    (ret.call \in {"Call", "Index"} /\ ~FirstIsCommaOperation(GivenArguments)) =>
        ArgumentsAsGiven

\* Call(f, a, 2, k=2) has been built and renders f(a, 2, k=2)
C15_Witness ==
    /\ ret.call = "Call"
    /\ ret.args[1] = <<IdA, NativeInt(<<"2">>)>> /\ Len(ret.args[2]) = 1
    /\ Text(x, NoAlias) =
           <<"f", "(", "a", ",", " ", "2", ",", " ", "k", "=", "2", ")">>

\* the expression the stated dispatch of make_expression yields for a value
ByKind(v) ==
    CASE v.cls \in ExpressionClasses -> v
      [] v.cls = "str" -> Node("Lit", "", "", repr(v), <<>>)
      [] v.cls = "list" ->
             Node("ListLiteral", "", "SQUARE", <<>>, <<Grouped(Converted(v.items))>>)
      [] v.cls = "tuple" ->
             Node("TupleLiteral", "", "ROUND", <<>>, <<Grouped(Converted(v.items))>>)
      [] v.cls = "set" ->
             Node("SetLiteral", "", "CURLY", <<>>, <<Grouped(Converted(v.items))>>)
      [] v.cls = "dict" ->
             Node("DictLiteral", "", "CURLY", <<>>,
                  <<Grouped(AsSeq([i \in 1..Len(v.items) |->
                              Node("DictEntry", "", "", <<>>,
                                   Converted(v.items[i]))]))>>)
      [] v.cls = "slice" -> Node("Operation", "SLICE", "", <<>>, SliceOperands(v.items))
      [] v.cls \in Iterables ->
             Node("Call", "", "", <<>>,
                  <<Node("Id", "", "", type_of(v).name, <<>>),
                    Node("_Invocation", "", "ROUND", <<>>,
                         <<Grouped(Converted(v.items))>>)>>)
      [] OTHER -> Node("Lit", "", "", v.value, <<>>)

\* C16 as stated: make_expression returns an Expression unchanged (and is
\* idempotent), turns a str into a literal, a list / tuple / set / dict into the
\* matching collection literal, a slice into a SLICE operation, any other
\* iterable into a Call of an identifier named after its type applied to its
\* elements, and every other value into a literal.
C16_ConversionByKind ==
    ret.call = "make_expression" =>
        /\ ret.err = ""
        /\ x = ByKind(ret.args[1])
        /\ make_expression(x) = x

\* C16, the part that holds: the same for every value that is neither a
\* FrozenExpression nor a non-iterable value with a non-empty __name__.
C16_ConversionByKindOfUnnamed ==
    (ret.call = "make_expression"
        /\ ret.args[1].cls \notin {"FrozenExpression", "function"}) =>
        /\ ret.err = ""
        /\ x = ByKind(ret.args[1])
        /\ make_expression(x) = x

\* range(...) yielding 2 and 'b' has been converted to the call range(2, 'b')
C16_Witness ==
    /\ ret.call = "make_expression"
    /\ ret.args = <<NativeRange(<<NativeInt(<<"2">>), NativeStr(<<"b">>)>>)>>
    /\ Text(x, NoAlias) =
           <<"r", "a", "n", "g", "e", "(", "2", ",", " ", "'", "b", "'", ")">>

\* the name Id derives from its argument: the text of a str, the __name__ of
\* any other value
DerivedName(name) == IF name.cls = "str" THEN name.value ELSE name.name

\* C17 as stated: Id(name) succeeds only when a non-empty name is given or can
\* be derived, and then holds that name; for an empty string or a value
\* without a name it raises an error and creates no identifier.
C17_IdentifierNeedsName ==
    [][ret'.call = "Id" =>
           IF DerivedName(ret'.args[1]) # <<>>
           THEN /\ ret'.err = ""
                /\ x' = Node("Id", "", "", DerivedName(ret'.args[1]), <<>>)
           ELSE ret'.err # "" /\ x' = x]_vars

\* C17, the part that holds: the same for every argument but the empty string.
C17_IdentifierNeedsNameUnlessEmptyText ==
    [][(ret'.call = "Id" /\ ret'.args[1] # NativeStr(<<>>)) =>
           IF DerivedName(ret'.args[1]) # <<>>
           THEN /\ ret'.err = ""
                /\ x' = Node("Id", "", "", DerivedName(ret'.args[1]), <<>>)
           ELSE ret'.err # "" /\ x' = x]_vars

\* Id has refused an object without a __name__ while x holds an expression
C17_Witness ==
    /\ ret.call = "Id" /\ ret.args = <<NativeObject>> /\ ret.err = "TypeError"
    /\ x.cls = "ListLiteral"


-----------------------------------------------------------------------------
(* Properties of the examples (specification SpecExample) *)

\* Id.f((Lit(1) | Lit(2)) >> (Lit('x') % Id.x), abc=-Lit(5))
TheCallExample ==
    Node("Call", "", "", <<>>,
         <<IdF,
           Node("_Invocation", "", "ROUND", <<>>,
                <<Node("Operation", "COMMA", "", <<>>,
                       <<Node("Operation", "RSHIFT", "", <<>>,
                              <<Node("Operation", "OR_BITWISE", "", <<>>,
                                     <<Lit(<<"1">>), Lit(<<"2">>)>>),
                                Node("Operation", "MOD", "", <<>>,
                                     <<Lit(<<"'", "x", "'">>),
                                       Node("Id", "", "", <<"x">>, <<>>)>>)>>),
                         Node("KeywordArgument", "", "", <<>>,
                              <<Node("Id", "", "", <<"a", "b", "c">>, <<>>),
                                Node("UnaryOperation", "NEG", "", <<>>,
                                     <<Epsilon, Lit(<<"5">>)>>)>>)>>)>>)>>)

\* the example has just been rendered on a single line
CallExampleRendered ==
    /\ x = TheCallExample
    /\ ret.call = "to_text" /\ ret.err = "" /\ ret.config.single_line

\* C18 as stated: the example renders on a single line as
\* f(1 | 2 >> 'x' % x, abc=-5).
C18_ExampleText ==
    CallExampleRendered =>
        ret.text = <<"f", "(", "1", " ", "|", " ", "2", " ", ">", ">", " ",
                     "'", "x", "'", " ", "%", " ", "x", ",", " ",
                     "a", "b", "c", "=", "-", "5", ")">>

\* C18, amended: the example renders on a single line as
\* f((1 | 2) >> 'x' % x, abc=-5): the first operand of >> binds looser than >>
\* and is wrapped in round brackets, the second binds tighter and is not.
C18_ExampleTextWithBrackets ==
    CallExampleRendered =>
        ret.text = <<"f", "(", "(", "1", " ", "|", " ", "2", ")", " ",
                     ">", ">", " ", "'", "x", "'", " ", "%", " ", "x", ",", " ",
                     "a", "b", "c", "=", "-", "5", ")">>

C18_Witness == CallExampleRendered /\ x.cls = "Call"


\* Id.a + Id.b + Id.c, an operation of three operands
TheSumExample ==
    Node("Operation", "ADD", "", <<>>,
         <<IdA, Node("Id", "", "", <<"b">>, <<>>),
           Node("Id", "", "", <<"c">>, <<>>)>>)

\* the sum has just been rendered within five characters
SumExampleRendered ==
    /\ x = TheSumExample
    /\ ret.call = "to_text" /\ ret.err = ""
    /\ ~ret.config.single_line /\ ret.config.max_width = 5

RECURSIVE SplitLines(_)
\* the lines of a text
SplitLines(t) ==
    IF \A i \in 1..Len(t) : t[i] # "\n" THEN <<t>>
    ELSE LET k == CHOOSE i \in 1..Len(t) :
                      t[i] = "\n" /\ \A j \in 1..(i - 1) : t[j] # "\n"
         IN  <<SubSeq(t, 1, k - 1)>> \o SplitLines(SubSeq(t, k + 1, Len(t)))

\* a line is the given text behind one level of indentation
IndentedOnce(line, text, config) ==
    line = Spaces(config.indent_width) \o text

\* C19 as stated: a + b + c at max_width 5 renders as exactly three lines, one
\* per operand, indented one level, the second and third starting with "+ ".
C19_SumOnThreeLines ==
    SumExampleRendered =>
        LET lines == SplitLines(ret.text)
        IN  /\ Len(lines) = 3
            /\ IndentedOnce(lines[1], <<"a">>, ret.config)
            /\ IndentedOnce(lines[2], <<"+", " ", "b">>, ret.config)
            /\ IndentedOnce(lines[3], <<"+", " ", "c">>, ret.config)

\* C19, amended: a + b + c at max_width 5 renders as five lines: an opening
\* round bracket, the three operand lines indented one level, the second and
\* third starting with "+ ", and the closing round bracket.
C19_SumOnThreeLinesInBrackets ==
    SumExampleRendered =>
        LET lines == SplitLines(ret.text)
        IN  /\ Len(lines) = 5
            /\ lines[1] = <<"(">>
            /\ IndentedOnce(lines[2], <<"a">>, ret.config)
            /\ IndentedOnce(lines[3], <<"+", " ", "b">>, ret.config)
            /\ IndentedOnce(lines[4], <<"+", " ", "c">>, ret.config)
            /\ lines[5] = <<")">>

C19_Witness == SumExampleRendered /\ NumLines(ret.text) > 1


\* a text without newline characters
OneLine(t) == \A i \in 1..Len(t) : t[i] # "\n"

\* this step is a call of to_text
Renders == ret'.call = "to_text" /\ ret'.err = ""

\* this step repeats the call of to_text of the step before it, on the
\* expression that call rendered and with the same configuration
RendersAgain ==
    Renders /\ ret.call = "to_text" /\ ret.err = "" /\ ret'.config = ret.config

\* a call of to_text changes neither the expression, nor the expression kept
\* beside it, nor the target of an alias, nor the registry of default formats
LeavesAllAsItWas ==
    /\ x' = x /\ y' = y /\ alias_expression' = alias_expression
    /\ default_format' = default_format /\ reg_log' = reg_log

\* C20 as stated: to_text with single_line true returns a text without
\* newline characters; a repeated call on the same expression with the same
\* configuration returns the same text; a call changes neither the expression
\* nor the registry.
C20_RenderingIsPure ==
    [][Renders =>
           /\ ret'.config.single_line => OneLine(ret'.text)
           /\ RendersAgain => ret'.text = ret.text
           /\ LeavesAllAsItWas]_vars

\* C20, the part that holds: the same, where the single line is promised only
\* for an expression whose atomic expressions have texts without newlines.
C20_RenderingIsPureOfOneLineAtoms ==
    [][Renders =>
           /\ (/\ ret'.config.single_line
               /\ \A n \in Nodes(x) : OneLine(n.value))
                  => OneLine(ret'.text)
           /\ RendersAgain => ret'.text = ret.text
           /\ LeavesAllAsItWas]_vars

\* an operation has been rendered on a single line, into the text of its form
C20_Witness ==
    /\ ret.call = "to_text" /\ ret.err = "" /\ ret.config.single_line
    /\ x.cls = "Operation" /\ OneLine(ret.text)
    /\ ret.text = to_text(x, ret.config, NoAlias).text


-----------------------------------------------------------------------------
(* Properties of JobRunner.run_queues (specification SpecRunner) *)

\* the generator has been iterated at least once
Iterated == generator.state \in {"suspended", "finished", "raised"}

\* queue k reports the number of jobs it produces
LengthAgreesWithJobs(queue) == queue.len = Len(queue.jobs)

\* the k-th call of collate was made on queue k with the results of exactly the
\* jobs of queue k, in the order of its jobs(); at the end there has been one
\* call per queue
CollatedPerQueue ==
    /\ \A k \in 1..Len(generator.collated) :
           /\ generator.collated[k].queue = k
           /\ generator.collated[k].job_results = generator.queues[k].jobs
    /\ generator.state = "finished" =>
           Len(generator.collated) = Len(generator.queues)

\* C21 as stated: run_queues, once iterated, yields one result per queue in
\* queue order, the result of queue k being its collate applied to the results
\* of exactly its own jobs in order; whenever a queue's reported length
\* disagrees with the number of jobs it produced, an AssertionError is raised
\* instead of any collate being called.
C21_ResultsPerQueue ==
    Iterated =>
        IF \A k \in 1..Len(generator.queues) :
               LengthAgreesWithJobs(generator.queues[k])
        THEN generator.state # "raised" /\ CollatedPerQueue
        ELSE generator.state = "raised" /\ generator.collated = <<>>

\* C21, the part that holds: the same where the sum of the reported lengths is
\* compared with the number of all jobs: if every queue reports its number of
\* jobs the results are attributed per queue, and if the sums differ an
\* AssertionError is raised and collate is never called.
C21_ResultsPerQueueIfSumsDiffer ==
    Iterated =>
        LET qs == generator.queues
            lengths == SumSeq(AsSeq([k \in 1..Len(qs) |-> qs[k].len]))
            jobs == SumSeq(AsSeq([k \in 1..Len(qs) |-> Len(qs[k].jobs)]))
        IN  /\ (\A k \in 1..Len(qs) : LengthAgreesWithJobs(qs[k])) =>
                   generator.state # "raised" /\ CollatedPerQueue
            /\ lengths # jobs =>
                   generator.state = "raised" /\ generator.collated = <<>>
            /\ generator.state = "raised" => lengths # jobs

\* three queues with jobs have been run to the end, each collated in turn
C21_Witness ==
    /\ generator.state = "finished" /\ Len(generator.collated) = 3
    /\ \A k \in 1..3 : generator.collated[k].job_results # <<>>
    /\ CollatedPerQueue


-----------------------------------------------------------------------------
(* Properties of the decorator deprecated (specification SpecDeprecated) *)

\* the text of the warning for a deprecated function
DeprecationText(func, message) ==
    IF message = None THEN "Call to deprecated function " \o func.qualname
    ELSE "Call to deprecated function " \o func.qualname \o ": " \o message.value

\* C22: every call of a function wrapped by @deprecated (bare or with
\* message=...) first issues exactly one FutureWarning with the text
\* 'Call to deprecated function <qualified name>', followed by ': <message>'
\* when a message was given, then calls the wrapped function exactly once with
\* the same arguments, and returns its result.
C22_WarnsThenCalls ==
    [][(ret'.call = "new_func" /\ decorated.func.type = "function") =>
           /\ events' = events \o
                  <<[event |-> "warn", category |-> "FutureWarning",
                     text |-> DeprecationText(decorated.func, decorated.message)],
                    [event |-> "call", func |-> decorated.func.qualname,
                     args |-> ret'.args]>>
           /\ ret'.err = "" => ret'.other = <<decorated.func.qualname, ret'.args>>
           /\ decorated' = decorated]_vars

\* a function deprecated with a message has been called twice and has returned
C22_Witness ==
    /\ ret.call = "new_func" /\ ret.err = "" /\ Len(events) = 4
    /\ decorated.func.type = "function" /\ decorated.message # None
    /\ events[3].text = "Call to deprecated function f: test message"


-----------------------------------------------------------------------------
(* Properties of the multi-line layout (specification Spec) *)

RECURSIVE OnOneLine(_, _, _, _, _)
\* for each line of to_lines(form, ...), whether the line contains a composite
\* form that to_lines emitted on a single line
OnOneLine(form, config, indent, leading_characters, trailing_characters) ==
    CASE form.form = "EmptyForm" -> <<>>
      [] form.form = "AtomicForm" -> <<FALSE>>
      [] OTHER ->
         IF ~exceeds_width(form, config, indent, leading_characters,
                           trailing_characters)
         THEN <<TRUE>>
         ELSE CASE form.form = "BracketedForm" ->
                       <<FALSE>>
                           \o OnOneLine(form.subform, config, indent + 1, 0, 0)
                           \o <<FALSE>>
                [] form.form = "PrefixForm" ->
                       LET prefix_lines == to_lines(form.prefix, config, indent,
                                                    leading_characters, 0).lines
                           of_prefix == OnOneLine(form.prefix, config, indent,
                                                  leading_characters, 0)
                           of_body ==
                               OnOneLine(form.body, config, indent,
                                         (IF prefix_lines # <<>>
                                          THEN Len(Last(prefix_lines).text)
                                          ELSE 0) + Len(form.separator),
                                         trailing_characters)
                       IN  IF of_prefix = <<>> \/ of_body = <<>> THEN of_body
                           ELSE Front(of_prefix)
                                    \o <<Last(of_prefix) \/ of_body[1]>>
                                    \o Tail(of_body)
                [] form.form = "InfixForm" ->
                       IF Len(form.subforms) = 1
                       THEN OnOneLine(form.subforms[1], config, indent,
                                      leading_characters, trailing_characters)
                       ELSE LET of_subform(idx) ==
                                    OnOneLine(form.subforms[idx + 1], config,
                                              indent,
                                              infix_leading(form, idx,
                                                            leading_characters),
                                              infix_trailing(form, idx,
                                                             trailing_characters))
                                join[idx \in 0..Len(form.subforms)] ==
                                    IF idx = Len(form.subforms) THEN <<>>
                                    ELSE of_subform(idx) \o join[idx + 1]
                            IN  join[0]

\* the lines of the last multi-line rendering, as written
OutputLines ==
    LET lines == to_lines(top_form(x, alias_expression), ret.config, 0, 0, 0).lines
    IN  [i \in 1..Len(lines) |-> line_text(ret.config, lines[i])]

\* the lines of the last multi-line rendering that contain a composite form
\* emitted on a single line
LinesOfOneLineForms ==
    LET marks == OnOneLine(top_form(x, alias_expression), ret.config, 0, 0, 0)
    IN  {i \in 1..Len(marks) : marks[i]}

LaidOut ==
    /\ ret.call = "to_text" /\ ~ret.config.single_line /\ ret.err = ""
    /\ ~Cyclic(x, alias_expression)

\* C23 as stated: in a multi-line rendering every output line that contains a
\* composite form emitted on a single line is at most max_width characters
\* long.
C23_OneLineFormsFit ==
    LaidOut =>
        /\ ret.text = JoinText(<<"\n">>, AsSeq(OutputLines))
        /\ \A i \in LinesOfOneLineForms :
               Len(OutputLines[i]) <= ret.config.max_width

HasPrefixForm(e) == \E n \in Nodes(e) : n.cls \in PrefixClasses

\* C23, the part that holds: when the expression contains no prefix form (no
\* unary operation, keyword argument, dict entry, call, index or lambda), every
\* output line that contains a composite form emitted on a single line is at
\* most max_width characters long.
C23_OneLineFormsFitWithoutPrefixForms ==
    (LaidOut /\ ~HasPrefixForm(x)) =>
        /\ ret.text = JoinText(<<"\n">>, AsSeq(OutputLines))
        /\ \A i \in LinesOfOneLineForms :
               Len(OutputLines[i]) <= ret.config.max_width

\* [a + 1] has been laid out at max_width 6 with a + 1 on a line of its own
C23_Witness ==
    /\ LaidOut /\ ~HasPrefixForm(x)
    /\ ret.config.max_width = 6
    /\ ret.text = <<"[", "\n", " ", "a", " ", "+", " ", "1", "\n", "]">>
    /\ LinesOfOneLineForms = {2}


\* the infix forms with two or more subforms among the forms of e and of its
\* subexpressions
InfixFormsOf(e, al) ==
    {form \in {from_expression(n, al) : n \in Nodes(e)} :
        form.form = "InfixForm" /\ Len(form.subforms) >= 2}

\* the ways a subform can be laid out at an indent, over all the space that may
\* be reserved before and after it
LayoutsOf(subform, config, indent) ==
    LET laid == {to_lines(subform, config, indent, leading, trailing) :
                     leading \in 0..(config.max_width + 1),
                     trailing \in 0..(config.max_width + 1)}
    IN  {r.lines : r \in {l \in laid : l.ok}}

\* the lines of subform idx (from 0) with the infix token where C24 puts it;
\* defined when there is a line to carry the token
CarriesToken(form, idx) ==
    IF form.infix_padding = "right" THEN idx < Len(form.subforms) - 1
    ELSE idx > 0

WithToken(form, idx, lines) ==
    IF ~CarriesToken(form, idx) THEN lines
    ELSE IF form.infix_padding = "right"
    THEN [lines EXCEPT ![Len(lines)] =
              IndentedLine(@.indent, @.text \o form.infix)]
    ELSE [lines EXCEPT ![1] =
              IndentedLine(@.indent,
                           form.infix
                               \o (IF form.infix_padding = "both"
                                   THEN <<" ">> ELSE <<>>)
                               \o @.text)]

RECURSIVE SubformLinesInOrder(_, _, _, _, _)
\* lines is the concatenation of lines of the subforms from idx on, each laid
\* out at the indent and carrying the infix token where C24 puts it
SubformLinesInOrder(form, config, indent, lines, idx) ==
    IF idx = Len(form.subforms) THEN lines = <<>>
    ELSE \E own \in LayoutsOf(form.subforms[idx + 1], config, indent) :
             /\ CarriesToken(form, idx) => own # <<>>
             /\ Len(own) <= Len(lines)
             /\ SubSeq(lines, 1, Len(own)) = AsSeq(WithToken(form, idx, own))
             /\ SubformLinesInOrder(form, config, indent,
                                    SubSeq(lines, Len(own) + 1, Len(lines)),
                                    idx + 1)

\* to_text has been called in multi-line mode on an expression without cycle
LaidOutOrFailed ==
    /\ ret.call = "to_text" /\ ~ret.config.single_line
    /\ ~Cyclic(x, alias_expression)

\* the calls of InfixForm.to_multiple_lines the claim is checked on: every
\* infix form of the expression rendered, at indents 0 and 1, where the form
\* does not fit
InfixLayouts ==
    {<<form, indent, leading>> \in
         InfixFormsOf(x, alias_expression) \X {0, 1} \X {0, 2} :
         exceeds_width(form, ret.config, indent, leading, 0)}

\* C24 as stated: the multi-line layout of an infix form with two or more
\* subforms emits the lines of its subforms in operand order at the caller's
\* indent, with the infix token appended to the last line of every subform but
\* the last (padding right), or prepended, followed by a space for padding
\* both, to the first line of every subform but the first (padding none or
\* both), and on no other line.
C24_InfixLinesInOrder ==
    LaidOutOrFailed =>
        \A call \in InfixLayouts :
            LET r == infix_to_multiple_lines(call[1], ret.config, call[2],
                                             call[3], 0)
            IN  /\ r.ok
                /\ SubformLinesInOrder(call[1], ret.config, call[2], r.lines, 0)

\* C24, the part that holds: whenever the layout raises no error, the lines
\* are as C24 states.
C24_InfixLinesInOrderIfNoError ==
    LaidOutOrFailed =>
        \A call \in InfixLayouts :
            LET r == infix_to_multiple_lines(call[1], ret.config, call[2],
                                             call[3], 0)
            IN  r.ok => SubformLinesInOrder(call[1], ret.config, call[2],
                                            r.lines, 0)

\* a + 1 has been laid out at max_width 3 on two lines inside brackets, the
\* second line starting with the infix token
C24_Witness ==
    /\ LaidOut
    /\ ret.config.max_width = 3
    /\ InfixLayouts # {}
    /\ ret.text = <<"(", "\n", " ", " ", " ", " ", "a", "\n",
                    " ", " ", " ", " ", "+", " ", "1", "\n", ")">>


-----------------------------------------------------------------------------
(* Properties of keyword arguments (specification Spec) *)

KeywordArgumentsOf(e) == {n \in Nodes(e) : n.cls = "KeywordArgument"}

\* the dict entry with the same prefix and value as a keyword argument
AsDictEntry(n) == Node("DictEntry", "", "", <<>>, n.subs)

\* the value is in round brackets inside the text of the prefix expression n
ValueWrapped(n, al) == ChildText(n, 2, al) = Wrapped(Text(n.subs[2], al))

\* C25 as stated: a keyword argument has the precedence of the = tier, which is
\* the precedence of a dict entry and is looser than lambda, or, and, not and
\* the comparisons; its value is in brackets exactly when it would be in
\* brackets as the value of a dict entry.
C25_KeywordArgumentBindsAsAssign ==
    \A n \in KeywordArgumentsOf(x) :
        /\ precedence_(n, alias_expression) = precedence("ASSIGN")
        /\ precedence_(n, alias_expression)
               = precedence_(AsDictEntry(n), alias_expression)
        /\ \A operator \in {"LAMBDA", "OR", "AND", "NOT", "EQ", "NEQ", "LT", "IN"} :
               precedence_(n, alias_expression) < precedence(operator)
        /\ ValueWrapped(n, alias_expression)
               <=> ValueWrapped(AsDictEntry(n), alias_expression)

\* C25, the part that holds: a dict entry has the precedence of the : tier,
\* looser than lambda, or, and, not and the comparisons; the value of a keyword
\* argument is in brackets exactly when its precedence is below that of ==,
\* which agrees with the dict entry for every value that does not bind between
\* the : tier and the == tier.
C25_KeywordArgumentBindsAsEquality ==
    \A n \in KeywordArgumentsOf(x) :
        LET value == precedence_(n.subs[2], alias_expression)
        IN  /\ precedence_(AsDictEntry(n), alias_expression) = precedence("ASSIGN")
            /\ \A operator \in {"LAMBDA", "OR", "AND", "NOT", "EQ", "NEQ", "LT", "IN"} :
                   precedence_(AsDictEntry(n), alias_expression)
                       < precedence(operator)
            /\ ValueWrapped(n, alias_expression) <=> value < precedence("EQ")
            /\ ValueWrapped(AsDictEntry(n), alias_expression)
                   <=> value < precedence("COLON")
            /\ (value >= precedence("EQ") \/ value < precedence("COLON"))
                   => (ValueWrapped(n, alias_expression)
                           <=> ValueWrapped(AsDictEntry(n), alias_expression))

\* the keyword argument k=(not a) has been built: its value is in brackets,
\* where the value of the dict entry k: not a is not
C25_Witness ==
    /\ ret.call = "KeywordArgument" /\ ret.err = ""
    /\ x \in KeywordArgumentsOf(x)
    /\ Text(x, alias_expression)
           = <<"k", "=", "(", "n", "o", "t", " ", "a", ")">>
    /\ ValueWrapped(x, alias_expression)
    /\ ~ValueWrapped(AsDictEntry(x), alias_expression)


-----------------------------------------------------------------------------
(* Properties of rendering within the width (specification Spec) *)

SingleLineConfig(config) == [config EXCEPT !.single_line = TRUE]

\* C26: for an expression whose single-line length is at most max_width,
\* to_text with single_line false returns the text that to_text with
\* single_line true returns.
C26_FittingTextIsSingleLineText ==
    (/\ ret.call = "to_text" /\ ~ret.config.single_line
     /\ ~Cyclic(x, alias_expression)
     /\ Len(to_text(x, SingleLineConfig(ret.config), alias_expression).text)
            <= ret.config.max_width) =>
        /\ ret.err = ""
        /\ ret.text
               = to_text(x, SingleLineConfig(ret.config), alias_expression).text

\* a + 1, as long as max_width 6 allows with its five characters, has been
\* rendered in multi-line mode
C26_Witness ==
    /\ ret.call = "to_text" /\ ~ret.config.single_line
    /\ ret.config.max_width = 6
    /\ x.cls = "Operation"
    /\ ret.text = <<"a", " ", "+", " ", "1">>


-----------------------------------------------------------------------------
(* Properties of alias links (specification SpecAlias) *)

\* the alias is reachable from itself: its target holds the alias
AliasReachesItself == alias_expression # NoAlias /\ ContainsAlias(alias_expression)

\* C27 as stated: no expression is reachable from itself through
\* subexpression or alias links, and every to_text call ends without running
\* out of recursion depth.
C27_NoCycle ==
    /\ ~AliasReachesItself
    /\ ret.call = "to_text" => ret.err # "RecursionError"

\* C27, the part that holds: to_text ends without RecursionError whenever the
\* target of the alias does not hold the alias, and set_expression_ is the only
\* step that makes the alias reachable from itself.
C27_NoCycleUnlessAliasSetToItself ==
    [][/\ (ret'.call = "to_text" /\ ~AliasReachesItself')
              => ret'.err # "RecursionError"
       /\ (AliasReachesItself' /\ ~AliasReachesItself)
              => ret'.call = "set_expression_"]_vars

\* an expression that holds the alias has been rendered while the alias is
\* directed to an expression without the alias
C27_Witness ==
    /\ ret.call = "to_text" /\ ret.err = ""
    /\ ContainsAlias(x) /\ x # TheAlias
    /\ alias_expression # NoAlias /\ alias_expression \notin Atoms
    /\ ~AliasReachesItself


-----------------------------------------------------------------------------
(* Properties of lambda expressions (specification SpecBuild) *)

\* the parameter list C28 states for the parameters of a lambda expression
ParameterList(params) ==
    IF params = <<>> THEN Epsilon
    ELSE IF Len(params) = 1 THEN params[1]
    ELSE Node("Operation", "COMMA", "", <<>>, params)

\* x is the lambda expression over the parameter list C28 states and the body
\* of the last call
LambdaAsStated ==
    /\ ret.err = ""
    /\ x.cls = "Lambda" /\ x.subs[1] = Epsilon
    /\ x.subs[2].cls = "LambdaDefinition"
    /\ x.subs[2].subs = <<ParameterList(ret.args[1]), make_expression(ret.args[2])>>

\* C28 as stated: Lambda(*params, body=b) is built without error for any
\* number of parameters, over an Empty parameter list, the one parameter, or
\* the COMMA operation over the parameters in order; with parameters a, f and
\* an atomic body it renders lambda a, f: b.
C28_LambdaOfAnyParameters ==
    ret.call = "Lambda" =>
        /\ LambdaAsStated
        /\ (ret.args[1] = <<IdA, IdF>> /\ x.subs[2].subs[2].cls \in AtomicClasses) =>
               Text(x, NoAlias)
                   = <<"l", "a", "m", "b", "d", "a", " ", "a", ",", " ", "f", ":", " ">>
                         \o Text(x.subs[2].subs[2], NoAlias)

\* C28, the part that holds: with no parameter or one parameter the lambda
\* expression is built as stated, and with two or more parameters the call
\* raises TypeError.
C28_LambdaOfAtMostOneParameter ==
    ret.call = "Lambda" =>
        IF Len(ret.args[1]) <= 1 THEN LambdaAsStated
        ELSE ret.err = "TypeError"

\* Lambda(Id.a, body=2) has been built
C28_Witness ==
    /\ ret.call = "Lambda" /\ ret.args[1] = <<IdA>>
    /\ LambdaAsStated
    /\ Text(x, NoAlias) = <<"l", "a", "m", "b", "d", "a", " ", "a", ":", " ", "2">>


-----------------------------------------------------------------------------
(* Properties of the reflected overloads (specification SpecReflected) *)

\* the operation of the operator of the last call over the converted left
\* operand and the expression e, in this order
ReflectedOperation(e, call) ==
    Node("Operation", call.args[1], "", <<>>, <<make_expression(call.args[2]), e>>)

\* C29 as stated: v <op> e for a native left operand v yields, for every
\* operator with a reflected overload, the operation with that operator over
\* exactly the two operands make_expression(v) and e in this order.
C29_ReflectedOperands ==
    [][ret'.call = "ReflectedOverload" =>
           (ret'.err = "" /\ x' = ReflectedOperation(x, ret'))]_vars

\* C29, the part that holds: every reflected overload but the one of **
\* yields the stated operation, and the one of ** raises ValueError.
C29_ReflectedOperandsButPow ==
    [][ret'.call = "ReflectedOverload" =>
           IF ret'.args[1] = "POW" THEN ret'.err = "ValueError" /\ x' = x
           ELSE ret'.err = "" /\ x' = ReflectedOperation(x, ret')]_vars

\* 2 - (a + b) has been built by the reflected overload of -
C29_Witness ==
    /\ ret.call = "ReflectedOverload" /\ ret.err = ""
    /\ ret.args[1] = "SUB"
    /\ Text(x, NoAlias) = <<"2", " ", "-", " ", "(", "a", " ", "+", " ", "b", ")">>


-----------------------------------------------------------------------------
(* Properties of CharacterMatrix (specification SpecMatrix) *)

\* the rows or columns, counted from 0, that an index addresses among length
\* of them: the one an int names, counted from the end when negative, or the
\* ones a slice selects
Addressed(index, length) ==
    IF index.kind = "int"
    THEN {p \in 0..(length - 1) : p = index.index \/ p = index.index + length}
    ELSE LET selected == indices(index, length)
         IN  {p \in 0..(length - 1) :
                 \E k \in 0..length : p = selected.start + k * selected.step
                                      /\ IF selected.step > 0
                                         THEN p < selected.stop
                                         ELSE p > selected.stop}

HasShape(m, rows, columns) ==
    /\ Len(m) = rows
    /\ \A i \in 1..rows :
           /\ Len(m[i]) = columns
           /\ \A j \in 1..columns : m[i][j] \in {" ", "x", "a", "b"}

\* C30: a constructor call with positive dimensions yields a blank matrix of
\* that shape and one with a non-positive dimension fails with ValueError; an
\* item assignment leaves the matrix with its rows and columns, and leaves
\* every cell outside the addressed rows and columns as it was.
C30_ShapeKept ==
    [][/\ ret'.call = "CharacterMatrix" =>
              IF ret'.args[1].index > 0 /\ ret'.args[2].index > 0
              THEN /\ ret'.err = ""
                   /\ HasShape(matrix', ret'.args[1].index, ret'.args[2].index)
                   /\ n_columns' = ret'.args[2].index
              ELSE ret'.err = "ValueError" /\ matrix' = NoMatrix
       /\ ret'.call = "setitem" =>
              /\ HasShape(matrix', Len(matrix), n_columns)
              /\ n_columns' = n_columns
              /\ \A i \in 1..Len(matrix), j \in 1..n_columns :
                     (\/ Len(ret'.args) # 2
                      \/ (i - 1) \notin Addressed(ret'.args[1], Len(matrix))
                      \/ (j - 1) \notin Addressed(ret'.args[2], n_columns))
                         => matrix'[i][j] = matrix[i][j]]_vars

\* matrix[0, ::-1] = "ab" has written b, a into the first row of a matrix of
\* two rows filled with x
C30_Witness ==
    /\ ret.call = "setitem" /\ ret.err = ""
    /\ ret.args = <<IntIndex(0), Slice(<<>>, <<>>, <<0 - 1>>)>>
    /\ matrix = <<<<"b", "a">>, <<"x", "x">>>>

=============================================================================
